---- MODULE Spec2Model ----
(***************************************************************************)
(* A state-machine model of the storage core of VAST: the POSIX filesystem *)
(* actor, the pivoter, the partition life cycle, the segment, the syslog   *)
(* reader, the conversion of data to structs and the table slice builder.  *)
(*                                                                         *)
(* Each component has its own specification (FsSpec, PivotSpec, PartSpec,  *)
(* SegSpec, ...);                                                          *)
(* the variables of the components a specification does not drive keep     *)
(* their initial value.                                                    *)
(***************************************************************************)
EXTENDS Integers, Sequences, FiniteSets, TLC

VARIABLES
  \* ---- filesystem actor (posix_filesystem.cpp) ----
  fs_kind,      \* "posix": posix_filesystem; "mock": the partition test's mock
  fs_alive,     \* the actor has not terminated
  fs_disk,      \* the files below and beside the root: path -> bytes
  fs_stats,     \* posix_filesystem_state::stats
  fs_mailbox,   \* requests sent to the actor, not yet handled (FIFO)
  fs_replies,   \* request id -> the replies sent for it, in order
  fs_nextId,    \* id of the next request
  fs_last,      \* (history) the request handled last and what the handler did
  fs_moved,     \* (history) bytes moved by the successful requests, per kind
  fs_wrote,     \* (history) path -> the chunk of the last successful write
  fs_handled,   \* (history) requests handled, per kind
  fs_io,        \* (history) calls of io::save, io::read and chunk::mmap
  \* ---- pivoter (pivoter.cpp) ----
  pv_target,               \* pivoter_state::target
  pv_cache,                \* pivoter_state::cache: layout -> field or none
  pv_requested_ids,        \* pivoter_state::requested_ids
  pv_running_exporters,    \* pivoter_state::running_exporters
  pv_initial_query_completed,
  pv_sink,                 \* pivoter_state::sink
  pv_quit,                 \* self->quit() was called
  pv_queries,              \* the spawn requests sent to the node, in order
  pv_exporters,            \* per spawn request: requested, running, down, failed
  pv_slices,               \* (history) number of slices handled
  pv_last,                 \* (history) the slice handled last and its outcome
  \* ---- partition (spec 4.6; test/system/partition.cpp) ----
  ap_pc,        \* active partition: "active", the file being written,
                \* "sealed" or "failed"
  ap_await,     \* active partition: id of the write request awaited (0: none)
  ap_errors,    \* active partition: errors seal() has reported
  pp_state,     \* passive partition: "none" (not spawned), "waiting for
                \* chunk", "loading", "ready", "erased", "failed" (terminated)
  pp_await,     \* passive partition: id of its mmap request
  pp_mailbox,   \* passive partition: requests not yet looked at
  pp_stash,     \* passive partition: requests skipped so far
  pp_replies,   \* request id -> the replies the partition sent for it
  pp_nextId,    \* id of the next request to the partition
  pp_erasedAt,  \* (history) id of the first filesystem request sent after
                \* the erase (0: not erased)
  pt_reads,     \* (history) reads of partition files requested
  \* ---- segment builder and segment (segment.cpp; spec 4.3) ----
  sgm,          \* builder: the slices added; min: min_table_slice_offset;
                \* segment: the finished segment; offers: slices offered;
                \* last: (history) the call made last and its result
  \* ---- syslog reader (format/syslog.cpp) ----
  rdr,          \* lines: the input; pos: lines consumed; max_events,
                \* max_slice_size: the arguments of read; produced,
                \* batch_events: the counters of read_impl; builders: the
                \* rows of the builder of each layout; slices, rows_produced:
                \* what the consumer received; result: the error returned
  \* ---- conversion of data (concept/convertible/data.hpp) ----
  cnv,          \* map: the destination map of the list conversions; mapped:
                \* its mapped type; calls: conversions into the map so far;
                \* last: (history) the call made last, its arguments, the
                \* destination before and after, and the error returned
  \* ---- merge of settings (detail/settings.cpp; test/data.cpp) ----
  mrg,          \* src, dst, merge_lists: the arguments of merge, dst being
                \* merged into in place; calls: merges so far; before:
                \* (history) dst before the last merge
  \* ---- address parser (concept/parseable/vast/address.hpp) ----
  adr,          \* form, octets: how the text was made ("quad": a.b.c.d and
                \* "mapped": ::ffff:a.b.c.d printed from octets; "other");
                \* text: the input; op: the parser applied ("address", "v4");
                \* ok: its result; next: the position of f afterwards;
                \* bytes: address::bytes_ after a successful parse
  \* ---- bool synopsis (bool_synopsis.hpp) ----
  syn,          \* true_, false_: the members; added: (history) the values
                \* added, in order; last: (history) the lookup made last
                \* and its result
  \* ---- table slices and value indexes (fixtures/table_slices.cpp) ----
  tbl           \* layout, test_data: the fixture's layout and rows; builder:
                \* the builder's layout and buffered cells; slices: the
                \* slices make_slice returned; failed: the fixture called
                \* FAIL; makes: calls of make_slice by test_add and
                \* test_equality; idx: the value index; indexed: the slice
                \* and column appended to it and the offset given

fsVars == <<fs_kind, fs_alive, fs_disk, fs_stats, fs_mailbox, fs_replies,
            fs_nextId, fs_last, fs_moved, fs_wrote, fs_handled, fs_io>>

pvVars == <<pv_target, pv_cache, pv_requested_ids, pv_running_exporters,
            pv_initial_query_completed, pv_sink, pv_quit, pv_queries,
            pv_exporters, pv_slices, pv_last>>

ptVars == <<ap_pc, ap_await, ap_errors, pp_state, pp_await, pp_mailbox,
            pp_stash, pp_replies, pp_nextId, pp_erasedAt, pt_reads>>

\* The library components: each variable is one object, a record of its
\* members.
utlVars == <<mrg, adr, syn>>

libVars == <<sgm, rdr, cnv, tbl, utlVars>>

vars == <<fsVars, pvVars, ptVars, libVars>>

\* ------------------------------------------------------------------ bounds

\* Requests sent to the filesystem actor in one run of FsSpec.
MaxRequests == 3
\* Requests waiting in the filesystem actor's mailbox at one time.
MaxMailbox == 2
\* Slices delivered to the pivoter in one run.
MaxSlices == 2
\* Rows of a slice delivered to the pivoter.
MaxRows == 3
\* Requests sent to the passive partition in one run.
MaxPartRequests == 2
\* Reads of partition files requested from the filesystem in one run.
MaxReads == 1
\* Slices offered to the segment builder in one run.
MaxSegOffers == 3
\* Largest offset of a slice offered to the segment builder.
MaxSegOffset == 4
\* Rows of a slice offered to the segment builder.
MaxSegRows == 2
\* Lines of the input of the syslog reader.
MaxLines == 3
\* Largest max_events of a read.
MaxEvents == 3
\* Largest max_slice_size of a read.
MaxSliceSize == 2
\* Members of a struct converted from a record.
MaxMembers == 2
\* Longest list converted into a map.
MaxListLen == 2
\* Conversions into one map.
MaxMapCalls == 2
\* Leaf columns of the fixture's layout.
MaxColumns == 2
\* Rows of the fixture's test data.
MaxTblRows == 2
\* Cells of the fixture's test data.
MaxCells == 4
\* Calls of make_slice by the tests of the builder.
MaxMakes == 2
\* Largest offset given to a slice before it is indexed.
MaxIdxOffset == 2

\* Merges of one src into one dst.
MaxMerges == 2

\* Values added to one synopsis.
MaxAdds == 4

\* The digits of a numeral offered as an octet.
MaxNumeral == 4

\* The template arguments of the integral parser of make_v4 and the limit
\* of its guard.
MaxDigits == 3
MinDigits == 1
OctetLimit == 256

\* ------------------------------------------------------------------ paths

\* A path is the sequence of its components; an absolute path starts with
\* the root directory "/".
is_absolute(p) == Len(p) > 0 /\ p[1] = "/"

\* std::filesystem::path::operator/ : an absolute right operand replaces the
\* left one, a relative one is appended to it.
path_append(base, p) == IF is_absolute(p) THEN p ELSE base \o p

\* The root the actor was spawned with (self->state.root = root).
root == <<"/", "r">>

\* The filenames requests name: one relative, one absolute below the root
\* (the same file as the relative one), one absolute outside the root.
Filenames == { <<"a">>, <<"/", "r", "a">>, <<"/", "b">> }

\* The chunks written (never null: VAST_ASSERT(chk != nullptr)).
Chunks == { <<>>, <<1, 2>> }

\* The path each handler operates on.
write_path(filename) ==
  IF is_absolute(filename) THEN filename ELSE path_append(root, filename)

read_path(filename) ==
  IF is_absolute(filename) THEN filename ELSE path_append(root, filename)

\* A handler that joins root and filename as text, whatever the filename.
mmap_path_concat(filename) == root \o filename

mmap_path(filename) ==
  IF is_absolute(filename) THEN filename ELSE path_append(root, filename)

\* std::filesystem::exists
exists(path) == path \in DOMAIN fs_disk

\* ------------------------------------------------------------------ counters

ZeroStats == [successful |-> 0, failed |-> 0, bytes |-> 0]

ZeroAll == [checks |-> ZeroStats, writes |-> ZeroStats,
            reads |-> ZeroStats, mmaps |-> ZeroStats]

\* `++x += n`: the pre-increment yields the incremented lvalue, to which n
\* is then added.
PreIncAddAssign(x, n) == (x + 1) + n

Failed(st) == [st EXCEPT !.failed = @ + 1]

Succeeded(st, size) ==
  [st EXCEPT !.successful = @ + 1, !.bytes = PreIncAddAssign(@, size)]

\* ------------------------------------------------------------------ status

\* status_verbosity, in increasing order.
status_verbosity == <<"terse", "info", "detailed", "debug">>

Rank(v) == CHOOSE i \in 1..Len(status_verbosity) : status_verbosity[i] = v

Verbosities == { status_verbosity[i] : i \in 1..Len(status_verbosity) }

\* A status record in which "type" is put only at verbosity info exactly.
StatusRecordEq(v, stats) ==
  IF Rank(v) >= Rank("debug")
    THEN [operations |-> stats]
    ELSE IF v = "info" THEN [type |-> "POSIX"] ELSE <<>>

\* The record the status handler builds.
StatusRecord(v, stats) ==
  IF Rank(v) >= Rank("debug")
    THEN [type |-> "POSIX", operations |-> stats]
    ELSE IF Rank(v) >= Rank("info") THEN [type |-> "POSIX"] ELSE <<>>

\* ------------------------------------------------------------------ messages

Request(id, from, kind, filename, chk, v) ==
  [id |-> id, from |-> from, kind |-> kind, filename |-> filename,
   chk |-> chk, v |-> v]

\* A reply: a value, or an error.
Value(val) == [ok |-> TRUE, err |-> "none", val |-> <<val>>]
Error(err) == [ok |-> FALSE, err |-> err, val |-> <<>>]

NoLast == [id |-> 0, kind |-> "none", filename |-> <<>>, path |-> <<>>,
           existed |-> FALSE, v |-> "terse", size |-> 0,
           reply |-> Error("none")]

Last(req, path, existed, size, reply) ==
  [id |-> req.id, kind |-> req.kind, filename |-> req.filename,
   path |-> path, existed |-> existed, v |-> req.v, size |-> size,
   reply |-> reply]

\* The handler's return value becomes the one reply to the request.
Respond(req, reply) ==
  fs_replies' = [fs_replies EXCEPT ![req.id] = Append(@, reply)]

Handled(kind) == fs_handled' = [fs_handled EXCEPT ![kind] = @ + 1]

\* io::save that writes behind the bytes the file holds.
io_save_appends(path, bytes) ==
  [p \in DOMAIN fs_disk \cup {path} |->
     IF p # path THEN fs_disk[p]
     ELSE IF p \in DOMAIN fs_disk THEN fs_disk[p] \o bytes ELSE bytes]

\* io::save(path, bytes): on success the file holds exactly bytes; on failure
\* the file is as it was.
io_save(path, bytes) ==
  [p \in DOMAIN fs_disk \cup {path} |-> IF p = path THEN bytes ELSE fs_disk[p]]

\* (history) The chunk handed to the last successful io::save of each path.
wrote(path, bytes) ==
  [p \in DOMAIN fs_wrote \cup {path} |-> IF p = path THEN bytes ELSE fs_wrote[p]]

\* ------------------------------------------------------------------ handlers

\* A write handler that stops the actor when the save fails.
write_handler_quits(req, saveFails) ==
  LET path == write_path(req.filename) IN
  /\ Handled("write")
  /\ fs_io' = [fs_io EXCEPT !.save = @ + 1]
  /\ IF saveFails
       THEN /\ fs_stats' = [fs_stats EXCEPT !.writes = Failed(@)]
            /\ fs_alive' = FALSE
            /\ fs_last' = Last(req, path, exists(path), 0, Error("save_error"))
            /\ UNCHANGED <<fs_disk, fs_moved, fs_wrote, fs_replies>>
       ELSE /\ fs_disk' = io_save(path, req.chk)
            /\ fs_stats' = [fs_stats EXCEPT
                              !.writes = Succeeded(@, Len(req.chk))]
            /\ fs_moved' = [fs_moved EXCEPT !.writes = @ + Len(req.chk)]
            /\ fs_wrote' = wrote(path, req.chk)
            /\ fs_last' = Last(req, path, exists(path), Len(req.chk), Value("ok"))
            /\ Respond(req, Value("ok"))
            /\ UNCHANGED fs_alive

\* A write handler that answers ok whatever io::save returned.
write_handler_swallows(req, saveFails) ==
  LET path == write_path(req.filename) IN
  /\ Handled("write")
  /\ fs_io' = [fs_io EXCEPT !.save = @ + 1]
  /\ fs_disk' = IF saveFails THEN fs_disk ELSE io_save(path, req.chk)
  /\ fs_stats' = [fs_stats EXCEPT !.writes = Succeeded(@, Len(req.chk))]
  /\ fs_moved' = [fs_moved EXCEPT
                    !.writes = @ + (IF saveFails THEN 0 ELSE Len(req.chk))]
  /\ fs_wrote' = IF saveFails THEN fs_wrote ELSE wrote(path, req.chk)
  /\ fs_last' = Last(req, path, exists(path), Len(req.chk), Value("ok"))
  /\ Respond(req, Value("ok"))
  /\ UNCHANGED fs_alive

\* [self](atom::write, filename, chk) -> caf::result<atom::ok>
write_handler(req, saveFails) ==
  LET path == write_path(req.filename) IN
  /\ Handled("write")
  /\ fs_io' = [fs_io EXCEPT !.save = @ + 1]
  /\ IF saveFails
       THEN /\ fs_stats' = [fs_stats EXCEPT !.writes = Failed(@)]
            /\ fs_last' = Last(req, path, exists(path), 0, Error("save_error"))
            /\ Respond(req, Error("save_error"))
            /\ UNCHANGED <<fs_disk, fs_moved, fs_wrote>>
       ELSE /\ fs_disk' = io_save(path, req.chk)
            /\ fs_stats' = [fs_stats EXCEPT
                              !.writes = Succeeded(@, Len(req.chk))]
            /\ fs_moved' = [fs_moved EXCEPT !.writes = @ + Len(req.chk)]
            /\ fs_wrote' = wrote(path, req.chk)
            /\ fs_last' = Last(req, path, exists(path), Len(req.chk), Value("ok"))
            /\ Respond(req, Value("ok"))
  /\ UNCHANGED fs_alive

\* A read handler without the existence check: a missing file is an io::read
\* failure.
read_handler_unchecked(req, readFails) ==
  LET path == read_path(req.filename) IN
  /\ Handled("read")
  /\ fs_io' = [fs_io EXCEPT !.read = @ + 1]
  /\ IF readFails \/ ~exists(path)
       THEN /\ fs_stats' = [fs_stats EXCEPT
                              !.checks = [@ EXCEPT !.successful = @ + 1],
                              !.reads = Failed(@)]
            /\ fs_last' = Last(req, path, exists(path), 0, Error("io_error"))
            /\ Respond(req, Error("io_error"))
            /\ UNCHANGED <<fs_moved, fs_wrote>>
       ELSE /\ fs_stats' = [fs_stats EXCEPT
                              !.checks = [@ EXCEPT !.successful = @ + 1],
                              !.reads = Succeeded(@, Len(fs_disk[path]))]
            /\ fs_moved' = [fs_moved EXCEPT !.reads = @ + Len(fs_disk[path])]
            /\ UNCHANGED fs_wrote
            /\ fs_last' = Last(req, path, TRUE, Len(fs_disk[path]),
                               Value(fs_disk[path]))
            /\ Respond(req, Value(fs_disk[path]))
  /\ UNCHANGED <<fs_disk, fs_alive>>

\* [self](atom::read, filename) -> caf::result<chunk_ptr>
read_handler(req, readFails) ==
  LET path == read_path(req.filename) IN
  /\ Handled("read")
  /\ IF ~exists(path)
       THEN /\ fs_stats' = [fs_stats EXCEPT
                              !.checks = [@ EXCEPT !.failed = @ + 1]]
            /\ fs_last' = Last(req, path, FALSE, 0, Error("no_such_file"))
            /\ Respond(req, Error("no_such_file"))
            /\ UNCHANGED <<fs_moved, fs_wrote, fs_io>>
       ELSE /\ fs_io' = [fs_io EXCEPT !.read = @ + 1]
            /\ IF readFails
                 THEN /\ fs_stats' = [fs_stats EXCEPT
                                        !.checks = [@ EXCEPT !.successful = @ + 1],
                                        !.reads = Failed(@)]
                      /\ fs_last' = Last(req, path, TRUE, 0, Error("io_error"))
                      /\ Respond(req, Error("io_error"))
                      /\ UNCHANGED <<fs_moved, fs_wrote>>
                 ELSE /\ fs_stats' = [fs_stats EXCEPT
                                        !.checks = [@ EXCEPT !.successful = @ + 1],
                                        !.reads = Succeeded(@, Len(fs_disk[path]))]
                      /\ fs_moved' = [fs_moved EXCEPT
                                        !.reads = @ + Len(fs_disk[path])]
                      /\ UNCHANGED fs_wrote
                      /\ fs_last' = Last(req, path, TRUE, Len(fs_disk[path]),
                                         Value(fs_disk[path]))
                      /\ Respond(req, Value(fs_disk[path]))
  /\ UNCHANGED <<fs_disk, fs_alive>>

\* The mmap handler without the count of the successful check.
mmap_handler_uncounted(req, mmapFails) ==
  LET path == mmap_path(req.filename) IN
  /\ Handled("mmap")
  /\ IF ~exists(path)
       THEN /\ fs_stats' = [fs_stats EXCEPT
                              !.checks = [@ EXCEPT !.failed = @ + 1]]
            /\ fs_last' = Last(req, path, FALSE, 0, Error("no_such_file"))
            /\ Respond(req, Error("no_such_file"))
            /\ UNCHANGED <<fs_moved, fs_wrote, fs_io>>
       ELSE /\ fs_io' = [fs_io EXCEPT !.mmap = @ + 1]
            /\ IF mmapFails
                 THEN /\ fs_stats' = [fs_stats EXCEPT
                                        !.mmaps = Failed(@)]
                      /\ fs_last' = Last(req, path, TRUE, 0, Error("io_error"))
                      /\ Respond(req, Error("io_error"))
                      /\ UNCHANGED <<fs_moved, fs_wrote>>
                 ELSE /\ fs_stats' = [fs_stats EXCEPT
                                        !.mmaps = Succeeded(@, Len(fs_disk[path]))]
                      /\ fs_moved' = [fs_moved EXCEPT
                                        !.mmaps = @ + Len(fs_disk[path])]
                      /\ UNCHANGED fs_wrote
                      /\ fs_last' = Last(req, path, TRUE, Len(fs_disk[path]),
                                         Value(fs_disk[path]))
                      /\ Respond(req, Value(fs_disk[path]))
  /\ UNCHANGED <<fs_disk, fs_alive>>

\* [self](atom::mmap, filename) -> caf::result<chunk_ptr>
mmap_handler(req, mmapFails) ==
  LET path == mmap_path(req.filename) IN
  /\ Handled("mmap")
  /\ IF ~exists(path)
       THEN /\ fs_stats' = [fs_stats EXCEPT
                              !.checks = [@ EXCEPT !.failed = @ + 1]]
            /\ fs_last' = Last(req, path, FALSE, 0, Error("no_such_file"))
            /\ Respond(req, Error("no_such_file"))
            /\ UNCHANGED <<fs_moved, fs_wrote, fs_io>>
       ELSE /\ fs_io' = [fs_io EXCEPT !.mmap = @ + 1]
            /\ IF mmapFails
                 THEN /\ fs_stats' = [fs_stats EXCEPT
                                        !.checks = [@ EXCEPT !.successful = @ + 1],
                                        !.mmaps = Failed(@)]
                      /\ fs_last' = Last(req, path, TRUE, 0, Error("io_error"))
                      /\ Respond(req, Error("io_error"))
                      /\ UNCHANGED <<fs_moved, fs_wrote>>
                 ELSE /\ fs_stats' = [fs_stats EXCEPT
                                        !.checks = [@ EXCEPT !.successful = @ + 1],
                                        !.mmaps = Succeeded(@, Len(fs_disk[path]))]
                      /\ fs_moved' = [fs_moved EXCEPT
                                        !.mmaps = @ + Len(fs_disk[path])]
                      /\ UNCHANGED fs_wrote
                      /\ fs_last' = Last(req, path, TRUE, Len(fs_disk[path]),
                                         Value(fs_disk[path]))
                      /\ Respond(req, Value(fs_disk[path]))
  /\ UNCHANGED <<fs_disk, fs_alive>>

\* [self](atom::status, status_verbosity v)
status_handler(req) ==
  /\ Handled("status")
  /\ fs_last' = Last(req, <<>>, FALSE, 0, Value(StatusRecord(req.v, fs_stats)))
  /\ Respond(req, Value(StatusRecord(req.v, fs_stats)))
  /\ UNCHANGED <<fs_disk, fs_stats, fs_moved, fs_wrote, fs_io, fs_alive>>

\* ------------------------------------------------------------------ actor

\* The actor takes the first request of its mailbox and runs the matching
\* handler to completion.
Dequeue(kind) ==
  /\ fs_alive
  /\ fs_kind = "posix"
  /\ fs_mailbox # <<>>
  /\ Head(fs_mailbox).kind = kind
  /\ fs_mailbox' = Tail(fs_mailbox)
  /\ UNCHANGED <<fs_kind, fs_nextId, pvVars, ptVars, libVars>>

FsWrite ==
  /\ Dequeue("write")
  /\ \E saveFails \in BOOLEAN : write_handler(Head(fs_mailbox), saveFails)

FsRead ==
  /\ Dequeue("read")
  /\ \E readFails \in BOOLEAN : read_handler(Head(fs_mailbox), readFails)

FsMmap ==
  /\ Dequeue("mmap")
  /\ \E mmapFails \in BOOLEAN : mmap_handler(Head(fs_mailbox), mmapFails)

FsStatus ==
  /\ Dequeue("status")
  /\ status_handler(Head(fs_mailbox))

\* A request enters the mailbox; no reply exists for it yet.
Send(from, kind, filename, chk, v) ==
  /\ fs_mailbox' = Append(fs_mailbox,
                          Request(fs_nextId, from, kind, filename, chk, v))
  /\ fs_replies' = [i \in DOMAIN fs_replies \cup {fs_nextId} |->
                      IF i = fs_nextId THEN <<>> ELSE fs_replies[i]]
  /\ fs_nextId' = fs_nextId + 1

\* Some client of the filesystem sends a request.
ClientSend ==
  /\ fs_nextId <= MaxRequests
  /\ Len(fs_mailbox) < MaxMailbox
  /\ \/ \E f \in Filenames, c \in Chunks : Send("client", "write", f, c, "terse")
     \/ \E f \in Filenames : Send("client", "read", f, <<>>, "terse")
     \/ \E f \in Filenames : Send("client", "mmap", f, <<>>, "terse")
     \/ \E v \in Verbosities : Send("client", "status", <<>>, <<>>, v)
  /\ UNCHANGED <<fs_kind, fs_alive, fs_disk, fs_stats, fs_last, fs_moved, fs_wrote,
                 fs_handled, fs_io, pvVars, ptVars, libVars>>

\* Two senders write and read one file.
Senders == {"s1", "s2"}
SharedFile == <<"a">>
SenderChunks == { <<1>>, <<2, 3>> }

\* One of the senders sends a write or a read of the shared file.
SenderSend ==
  /\ fs_nextId <= MaxRequests
  /\ Len(fs_mailbox) < MaxMailbox
  /\ \E from \in Senders :
       \/ \E c \in SenderChunks : Send(from, "write", SharedFile, c, "terse")
       \/ Send(from, "read", SharedFile, <<>>, "terse")
  /\ UNCHANGED <<fs_kind, fs_alive, fs_disk, fs_stats, fs_last, fs_moved,
                 fs_wrote, fs_handled, fs_io, pvVars, ptVars, libVars>>

FsInitOf(kind) ==
  /\ fs_kind = kind
  /\ fs_alive = TRUE
  /\ fs_disk = <<>>
  /\ fs_stats = ZeroAll
  /\ fs_mailbox = <<>>
  /\ fs_replies = <<>>
  /\ fs_nextId = 1
  /\ fs_last = NoLast
  /\ fs_moved = [writes |-> 0, reads |-> 0, mmaps |-> 0]
  /\ fs_wrote = <<>>
  /\ fs_handled = [write |-> 0, read |-> 0, mmap |-> 0, status |-> 0]
  /\ fs_io = [save |-> 0, read |-> 0, mmap |-> 0]

\* ------------------------------------------------------------------ pivoter

\* Names are sequences of characters, so that a prefix test is a test.
starts_with(s, prefix) ==
  Len(s) >= Len(prefix) /\ SubSeq(s, 1, Len(prefix)) = prefix

zeek == <<"z", "e", "e", "k">>

\* The pivot targets: a Zeek type and a name one letter short of "zeek".
Targets == { zeek \o <<".", "c">>, <<"z", "e", "e">> }

\* Layouts of the slices delivered (name, field names in order).
Layout(name, fields) == [name |-> name, fields |-> fields]

Layouts ==
  { Layout(zeek \o <<".", "c">>, <<"ts", "uid">>),
    Layout(zeek \o <<".", "d">>, <<"uid", "community_id">>),
    Layout(zeek \o <<".", "s">>, <<"ts", "community_id">>),
    Layout(<<"s", "u", "r", "i">>, <<"community_id", "uid">>) }

\* Cell values: strings and non-strings (nil, a timestamp).
String(x) == [tag |-> "string", s |-> x]
Nil == [tag |-> "nil", s |-> ""]
Time == [tag |-> "time", s |-> ""]
PivotValues == { String("A"), String("B"), Nil }

\* The other id column of a slice differs from the first in every row.
Shift(v) == IF v = String("A") THEN String("B")
            ELSE IF v = String("B") THEN Nil ELSE String("A")

\* The slices delivered: n rows; the "uid" column takes any values, the
\* "community_id" column the shifted ones, "ts" holds timestamps.
Slice(layout, n, vals) ==
  [layout |-> layout,
   rows |-> n,
   cols |-> [f \in {layout.fields[i] : i \in 1..Len(layout.fields)} |->
               IF f = "ts" THEN [i \in 1..n |-> Time]
               ELSE IF f = "uid" THEN vals
               ELSE [i \in 1..n |-> Shift(vals[i])]]]

None == [present |-> FALSE, name |-> ""]
Some(name) == [present |-> TRUE, name |-> name]

\* The heuristic of common_field: the edge the target and the layout share.
\* One that looks at the target alone.
edge_by_target(target, layout) ==
  IF starts_with(target, zeek) THEN "uid" ELSE "community_id"

edge(target, layout) ==
  IF starts_with(target, zeek) /\ starts_with(layout.name, zeek)
    THEN "uid"
    ELSE "community_id"

\* for (auto& i : indicator.fields) if (i.name == edge) return i;
find_field(layout, e) ==
  IF \E i \in 1..Len(layout.fields) : layout.fields[i] = e
    THEN Some(e)
    ELSE None

\* common_field: the cached decision, or the heuristic's.
common_field(layout) ==
  IF layout \in DOMAIN pv_cache
    THEN pv_cache[layout]
    ELSE find_field(layout, edge(pv_target, layout))

\* common_field inserts its decision into the cache (found or not).
cache_insert(layout) ==
  IF layout \in DOMAIN pv_cache
    THEN pv_cache
    ELSE [l \in DOMAIN pv_cache \cup {layout} |->
            IF l = layout THEN find_field(layout, edge(pv_target, layout))
            ELSE pv_cache[l]]

\* The loop over the column, from row i on: xs and requested_ids after it.
\* One that tests against the ids requested by earlier slices only.
RECURSIVE collect_stale(_, _, _, _)
collect_stale(column, i, xs, requested) ==
  IF i > Len(column) THEN [xs |-> xs, requested |-> requested]
  ELSE IF column[i].tag # "string" \/ column[i].s \in pv_requested_ids
    THEN collect_stale(column, i + 1, xs, requested)
    ELSE collect_stale(column, i + 1, Append(xs, column[i].s),
                       requested \cup {column[i].s})

RECURSIVE collect(_, _, _, _)
collect(column, i, xs, requested) ==
  IF i > Len(column) THEN [xs |-> xs, requested |-> requested]
  ELSE IF column[i].tag # "string"          \* if (!x) continue;
    THEN collect(column, i + 1, xs, requested)
  ELSE IF column[i].s \in requested         \* already requested
    THEN collect(column, i + 1, xs, requested)
  ELSE collect(column, i + 1, Append(xs, column[i].s),
               requested \cup {column[i].s})

\* type == target && field in xs
Query(target, field, xs) == [type |-> target, field |-> field, in |-> xs]

\* (history) What to expect of a slice, stated on the slice itself: the field
\* the spec names, and the strings of a column that are not in `before`, each
\* once, in the order of their first rows.
NamedField(target, layout) ==
  LET e == IF starts_with(target, zeek) /\ starts_with(layout.name, zeek)
             THEN "uid" ELSE "community_id"
  IN IF e \in {layout.fields[i] : i \in 1..Len(layout.fields)}
       THEN Some(e) ELSE None

FirstRows(column, before) ==
  { i \in 1..Len(column) :
      /\ column[i].tag = "string"
      /\ column[i].s \notin before
      /\ \A j \in 1..(i - 1) : column[j] # column[i] }

RECURSIVE InRowOrder(_, _)
InRowOrder(column, rows) ==
  IF rows = {} THEN <<>>
  ELSE LET i == CHOOSE r \in rows : \A q \in rows : r <= q
       IN <<column[i].s>> \o InRowOrder(column, rows \ {i})

NewValues(column, before) == InRowOrder(column, FirstRows(column, before))

\* Rows holding a string that an earlier row of the column holds too.
Repeats(column) ==
  Cardinality({ i \in 1..Len(column) :
                  /\ column[i].tag = "string"
                  /\ \E j \in 1..(i - 1) : column[j] = column[i] })

NoSlice == [layout |-> Layout(<<>>, <<>>), repeats |-> 0, named |-> None,
            new |-> <<>>, field |-> None, query |-> 0]

\* quit_if_done that does not look at running_exporters.
quit_if_completed(completed, running) ==
  pv_quit' = completed

\* quit_if_done, given the values the handler has just set.
quit_if_done(completed, running) ==
  pv_quit' = (completed /\ running = 0)

\* [=](vast::table_slice slice)
slice_handler(slice) ==
  LET pivot_field == common_field(slice.layout)
      got == collect(slice.cols[pivot_field.name], 1, <<>>, pv_requested_ids)
      named == NamedField(pv_target, slice.layout)
      seen(q) == [layout |-> slice.layout,
                  repeats |-> IF named.present
                                THEN Repeats(slice.cols[named.name]) ELSE 0,
                  named |-> named,
                  new |-> IF named.present
                            THEN NewValues(slice.cols[named.name],
                                           pv_requested_ids)
                            ELSE <<>>,
                  field |-> pivot_field, query |-> q]
  IN
  /\ pv_cache' = cache_insert(slice.layout)
  /\ pv_slices' = pv_slices + 1
  /\ IF ~pivot_field.present
       THEN /\ pv_last' = seen(0)
            /\ UNCHANGED <<pv_requested_ids, pv_running_exporters, pv_queries,
                           pv_exporters>>
       ELSE /\ pv_requested_ids' = got.requested
            /\ IF got.xs = <<>>
                 THEN /\ pv_last' = seen(0)
                      /\ UNCHANGED <<pv_running_exporters, pv_queries,
                                     pv_exporters>>
                 ELSE /\ pv_running_exporters' = pv_running_exporters + 1
                      /\ pv_queries' = Append(pv_queries,
                                              Query(pv_target, pivot_field.name,
                                                    got.xs))
                      /\ pv_exporters' = Append(pv_exporters, "requested")
                      /\ pv_last' = seen(Len(pv_queries) + 1)
  /\ UNCHANGED <<pv_target, pv_initial_query_completed, pv_sink, pv_quit>>

\* A slice of the initial query arrives.
PvSlice ==
  /\ ~pv_quit
  /\ pv_slices < MaxSlices
  /\ \E layout \in Layouts, n \in 0..MaxRows :
       \E vals \in [1..n -> PivotValues] :
         slice_handler(Slice(layout, n, vals))
  /\ UNCHANGED <<fsVars, ptVars, libVars>>

\* A slice of one row of the initial query arrives.
PvSliceOne ==
  /\ ~pv_quit
  /\ pv_slices < MaxSlices
  /\ \E layout \in Layouts, vals \in [1..1 -> PivotValues] :
       slice_handler(Slice(layout, 1, vals))
  /\ UNCHANGED <<fsVars, ptVars, libVars>>

\* The node answers a spawn request with the exporter's handle.
PvSpawned ==
  /\ ~pv_quit
  /\ \E i \in 1..Len(pv_exporters) :
       /\ pv_exporters[i] = "requested"
       /\ pv_exporters' = [pv_exporters EXCEPT ![i] = "running"]
  /\ UNCHANGED <<pv_target, pv_cache, pv_requested_ids, pv_running_exporters,
                 pv_initial_query_completed, pv_sink, pv_quit, pv_queries,
                 pv_slices, pv_last>>
  /\ UNCHANGED <<fsVars, ptVars, libVars>>

\* The node answers a spawn request with an error.
PvSpawnFailed ==
  /\ ~pv_quit
  /\ \E i \in 1..Len(pv_exporters) :
       /\ pv_exporters[i] = "requested"
       /\ pv_exporters' = [pv_exporters EXCEPT ![i] = "failed"]
  /\ pv_running_exporters' = pv_running_exporters - 1
  /\ UNCHANGED <<pv_target, pv_cache, pv_requested_ids,
                 pv_initial_query_completed, pv_sink, pv_quit, pv_queries,
                 pv_slices, pv_last>>
  /\ UNCHANGED <<fsVars, ptVars, libVars>>

\* set_down_handler: a monitored exporter terminated.
PvDown ==
  /\ ~pv_quit
  /\ \E i \in 1..Len(pv_exporters) :
       /\ pv_exporters[i] = "running"
       /\ pv_exporters' = [pv_exporters EXCEPT ![i] = "down"]
  /\ pv_running_exporters' = pv_running_exporters - 1
  /\ quit_if_done(pv_initial_query_completed, pv_running_exporters - 1)
  /\ UNCHANGED <<pv_target, pv_cache, pv_requested_ids,
                 pv_initial_query_completed, pv_sink, pv_queries,
                 pv_slices, pv_last>>
  /\ UNCHANGED <<fsVars, ptVars, libVars>>

\* [=](std::string name, query_status): the initial query's final status.
PvStatus ==
  /\ ~pv_quit
  /\ ~pv_initial_query_completed
  /\ pv_initial_query_completed' = TRUE
  /\ quit_if_done(TRUE, pv_running_exporters)
  /\ UNCHANGED <<pv_target, pv_cache, pv_requested_ids, pv_running_exporters,
                 pv_sink, pv_queries, pv_exporters, pv_slices, pv_last>>
  /\ UNCHANGED <<fsVars, ptVars, libVars>>

\* [=](atom::sink, const caf::actor& sink)
PvSink ==
  /\ ~pv_quit
  /\ pv_sink = "none"
  /\ pv_sink' = "sink"
  /\ UNCHANGED <<pv_target, pv_cache, pv_requested_ids, pv_running_exporters,
                 pv_initial_query_completed, pv_quit, pv_queries, pv_exporters,
                 pv_slices, pv_last>>
  /\ UNCHANGED <<fsVars, ptVars, libVars>>

PvInitOf(targets) ==
  /\ pv_target \in targets
  /\ pv_cache = <<>>
  /\ pv_requested_ids = {}
  /\ pv_running_exporters = 0
  /\ pv_initial_query_completed = FALSE
  /\ pv_sink = "none"
  /\ pv_quit = FALSE
  /\ pv_queries = <<>>
  /\ pv_exporters = <<>>
  /\ pv_slices = 0
  /\ pv_last = NoSlice

\* No pivoter runs.
PvIdle == PvInitOf({<<>>})

\* ------------------------------------------------------------------ partition

\* The one partition of the model and its directory, partitions/<uuid>/.
uuid == "u"

PartitionFiles == <<"segment.bin", "indexes.bin", "synopses.bin", "meta.json">>

\* Bytes seal() writes to each file.
FileBytes(f) ==
  IF f = "segment.bin" THEN <<1, 2>>
  ELSE IF f = "indexes.bin" THEN <<3>>
  ELSE IF f = "synopses.bin" THEN <<4>>
  ELSE <<5>>

\* The file's name as the partition gives it to the filesystem (relative),
\* and its path below the root.
FileName(f) == <<"partitions", uuid, f>>
FilePath(f) == root \o FileName(f)

FileIndex(f) == CHOOSE i \in 1..Len(PartitionFiles) : PartitionFiles[i] = f

\* std::filesystem::remove of every file of the partition.
remove_partition_files ==
  [p \in DOMAIN fs_disk \ { FilePath(PartitionFiles[i]) :
                             i \in 1..Len(PartitionFiles) } |-> fs_disk[p]]

\* A scan lists the directories that hold a meta.json.
Scan == IF FilePath("meta.json") \in DOMAIN fs_disk THEN {uuid} ELSE {}

\* seal(): the segment is written first.
ApSeal ==
  /\ fs_kind = "posix"
  /\ ap_pc = "active"
  /\ Send("partition", "write", FileName(PartitionFiles[1]),
          FileBytes(PartitionFiles[1]), "terse")
  /\ ap_pc' = PartitionFiles[1]
  /\ ap_await' = fs_nextId
  /\ UNCHANGED <<fs_kind, fs_alive, fs_disk, fs_stats, fs_last, fs_moved, fs_wrote,
                 fs_handled, fs_io>>
  /\ UNCHANGED <<ap_errors, pp_state, pp_await, pp_mailbox, pp_stash,
                 pp_replies, pp_nextId, pp_erasedAt, pt_reads, pvVars, libVars>>

\* The write of a file was answered ok: the next file is written; after
\* meta.json, the last, the partition is sealed.
ApWritten ==
  /\ ap_await # 0
  /\ fs_replies[ap_await] # <<>>
  /\ fs_replies[ap_await][1].ok
  /\ IF FileIndex(ap_pc) = Len(PartitionFiles)
       THEN /\ ap_pc' = "sealed"
            /\ ap_await' = 0
            /\ UNCHANGED <<fs_mailbox, fs_replies, fs_nextId>>
       ELSE LET next == PartitionFiles[FileIndex(ap_pc) + 1] IN
            /\ Send("partition", "write", FileName(next), FileBytes(next),
                    "terse")
            /\ ap_pc' = next
            /\ ap_await' = fs_nextId
  /\ UNCHANGED <<fs_kind, fs_alive, fs_disk, fs_stats, fs_last, fs_moved, fs_wrote,
                 fs_handled, fs_io>>
  /\ UNCHANGED <<ap_errors, pp_state, pp_await, pp_mailbox, pp_stash,
                 pp_replies, pp_nextId, pp_erasedAt, pt_reads, pvVars, libVars>>

\* The write of a file was answered with an error: seal() reports one error
\* and writes nothing more; the files written so far are removed now, or
\* stay as orphans until the next start.
ApWriteFailed ==
  /\ ap_await # 0
  /\ fs_replies[ap_await] # <<>>
  /\ ~fs_replies[ap_await][1].ok
  /\ ap_pc' = "failed"
  /\ ap_await' = 0
  /\ ap_errors' = ap_errors + 1
  /\ \E cleanup \in BOOLEAN :
       fs_disk' = IF cleanup THEN remove_partition_files ELSE fs_disk
  /\ UNCHANGED <<fs_kind, fs_alive, fs_stats, fs_mailbox, fs_replies,
                 fs_nextId, fs_last, fs_moved, fs_wrote, fs_handled, fs_io>>
  /\ UNCHANGED <<pp_state, pp_await, pp_mailbox, pp_stash, pp_replies,
                 pp_nextId, pp_erasedAt, pt_reads, pvVars, libVars>>

\* passive_partition(id, store, fs, path): the partition asks the filesystem
\* to mmap its file and waits for the chunk.  (The test spawns it on the mock
\* filesystem; otherwise it is loaded from a sealed partition.)
PpSpawn ==
  /\ pp_state = "none"
  /\ fs_kind = "mock" \/ ap_pc = "sealed"
  /\ Send("partition", "mmap", FileName("segment.bin"), <<>>, "terse")
  /\ pp_state' = "waiting for chunk"
  /\ pp_await' = fs_nextId
  /\ UNCHANGED <<fs_kind, fs_alive, fs_disk, fs_stats, fs_last, fs_moved, fs_wrote,
                 fs_handled, fs_io>>
  /\ UNCHANGED <<ap_pc, ap_await, ap_errors, pp_mailbox, pp_stash, pp_replies,
                 pp_nextId, pp_erasedAt, pt_reads, pvVars, libVars>>

\* The filesystem's answer to the mmap request: the chunk (the partition
\* starts loading) or an error (the partition terminates).
PpChunk ==
  /\ pp_state = "waiting for chunk"
  /\ fs_replies[pp_await] # <<>>
  /\ pp_state' = IF fs_replies[pp_await][1].ok THEN "loading" ELSE "failed"
  /\ UNCHANGED <<ap_pc, ap_await, ap_errors, pp_await, pp_mailbox, pp_stash,
                 pp_replies, pp_nextId, pp_erasedAt, pt_reads, fsVars, pvVars, libVars>>

\* Synopses and indexes are deserialized; the skipped requests are looked at
\* again, before the newer ones.
PpLoaded ==
  /\ pp_state = "loading"
  /\ pp_state' = "ready"
  /\ pp_mailbox' = pp_stash \o pp_mailbox
  /\ pp_stash' = <<>>
  /\ UNCHANGED <<ap_pc, ap_await, ap_errors, pp_await, pp_replies, pp_nextId,
                 pp_erasedAt, pt_reads, fsVars, pvVars, libVars>>

PartRequestKinds == {"lookup", "evaluate", "erase", "status"}

\* A client sends the partition a request (status at verbosity debug).
PpRequest ==
  /\ pp_state # "none"
  /\ pp_nextId <= MaxPartRequests
  /\ \E kind \in PartRequestKinds :
       pp_mailbox' = Append(pp_mailbox, [id |-> pp_nextId, kind |-> kind])
  /\ pp_replies' = [i \in DOMAIN pp_replies \cup {pp_nextId} |->
                      IF i = pp_nextId THEN <<>> ELSE pp_replies[i]]
  /\ pp_nextId' = pp_nextId + 1
  /\ UNCHANGED <<ap_pc, ap_await, ap_errors, pp_state, pp_await, pp_stash,
                 pp_erasedAt, pt_reads, fsVars, pvVars, libVars>>

\* The partition looks at the next request of its mailbox.
PpTake(kinds, states) ==
  /\ pp_state \in states
  /\ pp_mailbox # <<>>
  /\ Head(pp_mailbox).kind \in kinds
  /\ pp_mailbox' = Tail(pp_mailbox)
  /\ UNCHANGED <<ap_pc, ap_await, ap_errors, pp_await, pp_nextId, pt_reads,
                 pvVars, libVars>>
  /\ pp_erasedAt' = IF pp_state = "ready" /\ Head(pp_mailbox).kind = "erase"
                      THEN fs_nextId ELSE pp_erasedAt

PpReply(reply) ==
  pp_replies' = [pp_replies EXCEPT ![Head(pp_mailbox).id] = Append(@, reply)]

PpLive == {"waiting for chunk", "loading", "ready", "erased"}

\* status(debug): answered in every state, with the state.
status_state(state) ==
  /\ PpReply(Value([state |-> state]))
  /\ UNCHANGED pp_stash

PpStatus ==
  /\ PpTake({"status"}, PpLive)
  /\ status_state(pp_state)
  /\ UNCHANGED <<pp_state, fsVars>>

\* A request other than status that arrives before the partition is loaded
\* is skipped: it gets no reply and stays with the partition.
PpSkip ==
  /\ PpTake({"lookup", "evaluate", "erase"}, {"waiting for chunk", "loading"})
  /\ pp_stash' = Append(pp_stash, Head(pp_mailbox))
  /\ UNCHANGED <<pp_state, pp_replies, fsVars>>

\* lookup(expr) -> bitmap, evaluate(expr) -> slices.
PpQuery ==
  /\ PpTake({"lookup", "evaluate"}, {"ready"})
  /\ PpReply(Value(IF Head(pp_mailbox).kind = "lookup" THEN "ids" ELSE "slices"))
  /\ UNCHANGED <<pp_state, pp_stash, fsVars>>

\* erase(): the four files are deleted, the partition is erased for good.
PpErase ==
  /\ PpTake({"erase"}, {"ready"})
  /\ fs_disk' = remove_partition_files
  /\ pp_state' = "erased"
  /\ PpReply(Value("done"))
  /\ UNCHANGED <<pp_stash, fs_kind, fs_alive, fs_stats, fs_mailbox, fs_replies,
                 fs_nextId, fs_last, fs_moved, fs_wrote, fs_handled, fs_io>>

\* After erase, every operation returns an error.
PpRejected ==
  /\ PpTake({"lookup", "evaluate", "erase"}, {"erased"})
  /\ PpReply(Error("erased"))
  /\ UNCHANGED <<pp_state, pp_stash, fsVars>>

\* Some actor asks the filesystem to read one of the partition's files.
PtRead ==
  /\ pt_reads < MaxReads
  /\ Len(fs_mailbox) < MaxMailbox
  /\ \E i \in 1..Len(PartitionFiles) :
       Send("reader", "read", FileName(PartitionFiles[i]), <<>>, "terse")
  /\ pt_reads' = pt_reads + 1
  /\ UNCHANGED <<fs_kind, fs_alive, fs_disk, fs_stats, fs_last, fs_moved, fs_wrote,
                 fs_handled, fs_io>>
  /\ UNCHANGED <<ap_pc, ap_await, ap_errors, pp_state, pp_await, pp_mailbox,
                 pp_stash, pp_replies, pp_nextId, pp_erasedAt, pvVars, libVars>>

\* The mock filesystem of the partition test.
MockDequeue(kind) ==
  /\ fs_kind = "mock"
  /\ fs_mailbox # <<>>
  /\ Head(fs_mailbox).kind = kind
  /\ fs_mailbox' = Tail(fs_mailbox)
  /\ UNCHANGED <<fs_kind, fs_alive, fs_disk, fs_stats, fs_nextId, fs_moved, fs_wrote,
                 fs_io, pvVars, ptVars, libVars>>

\* A mock that answers an mmap request with a chunk.
mock_mmap_answers(req) ==
  /\ fs_last' = Last(req, <<>>, FALSE, 0, Value(<<>>))
  /\ Respond(req, Value(<<>>))

\* [self](atom::mmap, path): return self->make_response_promise<chunk_ptr>();
\* the promise is never fulfilled.
mock_mmap(req) ==
  /\ fs_last' = Last(req, <<>>, FALSE, 0, Error("none"))
  /\ UNCHANGED fs_replies

MockMmap ==
  /\ MockDequeue("mmap")
  /\ Handled("mmap")
  /\ mock_mmap(Head(fs_mailbox))

\* [](atom::read, path): return nullptr;
MockRead ==
  /\ MockDequeue("read")
  /\ Handled("read")
  /\ fs_last' = Last(Head(fs_mailbox), <<>>, FALSE, 0, Value("nullptr"))
  /\ Respond(Head(fs_mailbox), Value("nullptr"))

PtInitOf(active) ==
  /\ ap_pc = active
  /\ ap_await = 0
  /\ ap_errors = 0
  /\ pp_state = "none"
  /\ pp_await = 0
  /\ pp_mailbox = <<>>
  /\ pp_stash = <<>>
  /\ pp_replies = <<>>
  /\ pp_nextId = 1
  /\ pp_erasedAt = 0
  /\ pt_reads = 0

\* No partition exists.
PtIdle == PtInitOf("none")

\* ------------------------------------------------------------------ segment

\* A table slice as the segment sees it: the id of its first row and its
\* number of rows (at least one).
SegSlice(offset, rows) == [offset |-> offset, rows |-> rows]

\* segment_builder::add: a slice below the smallest admissible offset is
\* rejected; an accepted slice moves that offset behind its last row.
builder_add(b, x) ==
  IF x.offset < b.min
    THEN [ok |-> FALSE, builder |-> b.builder, min |-> b.min]
    ELSE [ok |-> TRUE,
          builder |-> Append(b.builder, x),
          min |-> x.offset + x.rows]

\* bitmap::append_bits(bit, n) on a bitmap given as its sequence of bits.
append_bits(bm, bit, n) == bm \o [i \in 1..n |-> bit]

\* The outcome when the unsigned difference offset - size has wrapped: a
\* bitmap of some 2^64 bits.
Wrapped == [wrapped |-> TRUE, bits |-> <<>>]

\* segment::ids() without the gap between the slices.
segment_ids_dense(slices) ==
  LET RECURSIVE go(_, _)
      go(i, result) ==
        IF i > Len(slices) THEN [wrapped |-> FALSE, bits |-> result]
        ELSE go(i + 1, append_bits(result, TRUE, slices[i].rows))
  IN go(1, <<>>)

\* segment::ids() with one set bit for each slice.
segment_ids_one_bit(slices) ==
  LET RECURSIVE go(_, _)
      go(i, result) ==
        IF i > Len(slices) THEN [wrapped |-> FALSE, bits |-> result]
        ELSE IF slices[i].offset < Len(result) THEN Wrapped
        ELSE go(i + 1,
                append_bits(append_bits(result, FALSE,
                                        slices[i].offset - Len(result)),
                            TRUE, 1))
  IN go(1, <<>>)

\* segment::ids(): for each slice, append_bits(false, offset - size) and
\* append_bits(true, rows).
segment_ids(slices) ==
  LET RECURSIVE go(_, _)
      go(i, result) ==
        IF i > Len(slices) THEN [wrapped |-> FALSE, bits |-> result]
        ELSE IF slices[i].offset < Len(result) THEN Wrapped
        ELSE go(i + 1,
                append_bits(append_bits(result, FALSE,
                                        slices[i].offset - Len(result)),
                            TRUE, slices[i].rows))
  IN go(1, <<>>)

\* The lambda f of segment::lookup with the last row inside the interval.
slice_interval_closed(slice) == <<slice.offset, slice.offset + slice.rows + 1>>

\* The lambda f of segment::lookup: the half-open id interval of a slice.
slice_interval(slice) == <<slice.offset, slice.offset + slice.rows>>

\* The lambda g of segment::lookup: the slice is unpacked and pushed whole.
push_slice(result, slice) == Append(result, slice)

\* select_with(ids, begin, end, f, g): one walk over the ids and the slices;
\* `from` is the smallest id still of interest, i the slice looked at.
select_with(ids, slices) ==
  LET RECURSIVE walk(_, _, _)
      walk(i, from, result) ==
        LET rest == { x \in ids : x >= from } IN
        IF i > Len(slices) \/ rest = {} THEN result
        ELSE LET id == CHOOSE x \in rest : \A y \in rest : x <= y
                 iv == slice_interval(slices[i])
             IN IF iv[2] <= id THEN walk(i + 1, from, result)
                ELSE IF iv[1] <= id
                  THEN walk(i + 1, iv[2], push_slice(result, slices[i]))
                ELSE walk(i, iv[1], result)
  IN walk(1, 0, <<>>)

\* segment::lookup(xs) on a v0 segment.
lookup(segment, xs) == select_with(xs, segment.slices)

\* The uuid of a segment without a version, and the uuid a builder gives.
NilUuid == "nil"
BuilderUuid == "uuid"

\* visit(visitor, segment) for segment::ids(): the empty id set when the
\* root holds no version, the v0 visitor otherwise.
visit_ids(segment) ==
  IF segment.type = "NONE" THEN [wrapped |-> FALSE, bits |-> <<>>]
  ELSE segment_ids(segment.slices)

\* visit(visitor, segment) for segment::num_slices().
visit_num_slices(segment) ==
  IF segment.type = "NONE" THEN 0 ELSE Len(segment.slices)

\* visit(visitor, segment) for segment::id().
visit_id(segment) ==
  IF segment.type = "NONE" THEN NilUuid ELSE segment.uuid

SgNoCall == [op |-> "none"]

\* The ids a lookup may ask for.
SegIds == 0..(MaxSegOffset + MaxSegRows)

\* A slice is offered to the builder.
SbAdd ==
  /\ sgm.segment = <<>>
  /\ sgm.offers < MaxSegOffers
  /\ \E offset \in 0..MaxSegOffset, rows \in 1..MaxSegRows :
       LET x == SegSlice(offset, rows)
           r == builder_add(sgm, x)
       IN sgm' = [sgm EXCEPT !.builder = r.builder,
                             !.min = r.min,
                             !.offers = @ + 1,
                             !.last = [op |-> "add", slice |-> x,
                                       ok |-> r.ok, before |-> sgm.builder]]
  /\ UNCHANGED <<fsVars, pvVars, ptVars, rdr, cnv, tbl, utlVars>>

\* segment_builder::finish(): the segment holds the slices added; the builder
\* is reset.
SbFinish ==
  /\ sgm.segment = <<>>
  /\ sgm' = [sgm EXCEPT !.builder = <<>>,
                        !.min = 0,
                        !.segment = <<[type |-> "v0", uuid |-> BuilderUuid,
                                       slices |-> sgm.builder]>>,
                        !.last = [op |-> "finish"]]
  /\ UNCHANGED <<fsVars, pvVars, ptVars, rdr, cnv, tbl, utlVars>>

\* A segment whose root holds no version (segment_type() is NONE): it has
\* no v0 table, hence neither a uuid nor slices.
SgNone ==
  /\ sgm.segment = <<>>
  /\ sgm.offers = 0
  /\ sgm' = [sgm EXCEPT !.segment = <<[type |-> "NONE", uuid |-> NilUuid,
                                       slices |-> <<>>]>>,
                        !.last = [op |-> "finish"]]
  /\ UNCHANGED <<fsVars, pvVars, ptVars, rdr, cnv, tbl, utlVars>>

\* segment::lookup(xs) on the finished segment.  lookup and ids are const:
\* a run follows one call of them.
SgLookup ==
  /\ sgm.segment # <<>>
  /\ sgm.segment[1].type = "v0"
  /\ sgm.last.op = "finish"
  /\ \E xs \in SUBSET SegIds :
       sgm' = [sgm EXCEPT !.last = [op |-> "lookup", ids |-> xs,
                                    result |-> lookup(sgm.segment[1], xs)]]
  /\ UNCHANGED <<fsVars, pvVars, ptVars, rdr, cnv, tbl, utlVars>>

\* segment::ids() on the finished segment.
SgIds ==
  /\ sgm.segment # <<>>
  /\ sgm.last.op = "finish"
  /\ sgm' = [sgm EXCEPT !.last = [op |-> "ids",
                                  result |-> visit_ids(sgm.segment[1])]]
  /\ UNCHANGED <<fsVars, pvVars, ptVars, rdr, cnv, tbl, utlVars>>

\* segment::num_slices() on the finished segment.
SgNumSlices ==
  /\ sgm.segment # <<>>
  /\ sgm.last.op = "finish"
  /\ sgm' = [sgm EXCEPT !.last = [op |-> "num_slices",
                                  result |-> visit_num_slices(sgm.segment[1])]]
  /\ UNCHANGED <<fsVars, pvVars, ptVars, rdr, cnv, tbl, utlVars>>

\* segment::id() on the finished segment.
SgId ==
  /\ sgm.segment # <<>>
  /\ sgm.last.op = "finish"
  /\ sgm' = [sgm EXCEPT !.last = [op |-> "id",
                                  result |-> visit_id(sgm.segment[1])]]
  /\ UNCHANGED <<fsVars, pvVars, ptVars, rdr, cnv, tbl, utlVars>>

SgInit ==
  sgm = [builder |-> <<>>, min |-> 0, segment |-> <<>>, offers |-> 0,
         last |-> SgNoCall]

\* ------------------------------------------------------------------ syslog reader

\* What the message parser makes of a line: an RFC 5424 message, anything
\* else, or the empty line.
LineKinds == {"rfc5424", "raw", "empty"}

\* message_parser{}(line, sys_msg)
parses(line) == line = "rfc5424"

ReaderLayouts == <<"syslog.rfc5424", "syslog.unknown">>

\* A reader that builds an RFC 5424 row from every line.
row_layout_strict(line) == "syslog.rfc5424"

\* The branch of read_impl a line takes: the layout of its row.
row_layout(line) ==
  IF parses(line) THEN "syslog.rfc5424" ELSE "syslog.unknown"

\* bptr = builder(type); bptr != nullptr: the reader has a table slice
\* builder for each of its two layouts.
has_builder(layout) == layout \in DOMAIN rdr.builders

\* A flush that waits for one row more.
slice_full_late(rows, max_slice_size) == rows > max_slice_size

\* if (bptr->rows() >= max_slice_size)
slice_full(rows, max_slice_size) == rows >= max_slice_size

\* multi_layout_reader::finish(f, result): every builder that holds rows
\* hands its slice to the consumer, which counts the rows; the batch starts
\* over.
finish(r, result) ==
  LET flushed == SelectSeq([i \in 1..Len(ReaderLayouts) |->
                              [layout |-> ReaderLayouts[i],
                               rows |-> r.builders[ReaderLayouts[i]]]],
                           LAMBDA x : x.rows # <<>>)
      RECURSIVE count(_)
      count(xs) == IF xs = <<>> THEN 0 ELSE Len(Head(xs).rows) + count(Tail(xs))
  IN [r EXCEPT !.slices = @ \o flushed,
               !.rows_produced = @ + count(flushed),
               !.builders = [l \in DOMAIN r.builders |-> <<>>],
               !.batch_events = 0,
               !.result = result]

RdRunning == rdr.result = "running"

\* lines_->done()
RdInputDone == rdr.pos = Len(rdr.lines)

\* while (produced < max_events) is left: return finish(f).
RdFull ==
  /\ RdRunning
  /\ rdr.produced >= rdr.max_events
  /\ rdr' = finish(rdr, "none")
  /\ UNCHANGED <<fsVars, pvVars, ptVars, sgm, cnv, tbl, utlVars>>

\* if (lines_->done()) return finish(f, end_of_input)
RdEndOfInput ==
  /\ RdRunning
  /\ rdr.produced < rdr.max_events
  /\ RdInputDone
  /\ rdr' = finish(rdr, "end_of_input")
  /\ UNCHANGED <<fsVars, pvVars, ptVars, sgm, cnv, tbl, utlVars>>

\* The batch timeout has passed since the last batch: return
\* finish(f, ec::timeout).
RdBatchTimeout ==
  /\ RdRunning
  /\ rdr.produced < rdr.max_events
  /\ ~RdInputDone
  /\ rdr.batch_events > 0
  /\ rdr' = finish(rdr, "timeout")
  /\ UNCHANGED <<fsVars, pvVars, ptVars, sgm, cnv, tbl, utlVars>>

\* A stall that flushes the builders like the other ways out of read_impl.
stalled_flushes(r) == finish(r, "stalled")

\* return ec::stalled
stalled(r) == [r EXCEPT !.result = "stalled"]

\* lines_->next_timeout(read_timeout_) timed out: return ec::stalled.
RdStalled ==
  /\ RdRunning
  /\ rdr.produced < rdr.max_events
  /\ ~RdInputDone
  /\ rdr' = stalled(rdr)
  /\ UNCHANGED <<fsVars, pvVars, ptVars, sgm, cnv, tbl, utlVars>>

\* read is called again after a stall: produced starts at 0; the builders
\* and batch_events_ are members of the reader and keep their values.
RdResume ==
  /\ rdr.result = "stalled"
  /\ rdr' = [rdr EXCEPT !.produced = 0, !.result = "running"]
  /\ UNCHANGED <<fsVars, pvVars, ptVars, sgm, cnv, tbl, utlVars>>

\* One turn of the loop of read_impl on a line that was read in time.
RdLine ==
  /\ RdRunning
  /\ rdr.produced < rdr.max_events
  /\ ~RdInputDone
  /\ LET n == rdr.pos + 1
         line == rdr.lines[n]
         read == [rdr EXCEPT !.pos = n]
     IN IF line = "empty"
          THEN rdr' = read
          ELSE IF ~has_builder(row_layout(line))
            THEN rdr' = finish(read, "format_error")
            ELSE LET layout == row_layout(line)
                     added == [read EXCEPT
                                 !.builders[layout] = Append(@, n)]
                     flushed ==
                       IF slice_full(Len(added.builders[layout]),
                                     rdr.max_slice_size)
                         THEN finish(added, "running")
                         ELSE added
                 IN rdr' = [flushed EXCEPT !.produced = @ + 1,
                                           !.batch_events = @ + 1]
  /\ UNCHANGED <<fsVars, pvVars, ptVars, sgm, cnv, tbl, utlVars>>

\* reader::read(max_events, max_slice_size, consumer) on a new reader.
RdInitOf(lines, max_events, max_slice_size) ==
  rdr = [lines |-> lines, pos |-> 0,
         max_events |-> max_events, max_slice_size |-> max_slice_size,
         produced |-> 0, batch_events |-> 0,
         builders |-> [l \in {"syslog.rfc5424", "syslog.unknown"} |-> <<>>],
         slices |-> <<>>, rows_produced |-> 0, result |-> "running"]

\* No read is under way.
RdIdle == RdInitOf(<<>>, 0, 1)

\* ------------------------------------------------------------------ conversion

\* A 64-bit value is the sequence of its four 16-bit limbs, the most
\* significant first; a signed value is in two's complement.
Limb == 2^16

\* The 64-bit pattern of an int (sign extension).
FromInt(n) ==
  IF n >= 0 THEN <<0, 0, n \div Limb, n % Limb>>
  ELSE <<Limb - 1, Limb - 1, (n \div Limb) % Limb, n % Limb>>

\* a < b for uint64_t.
ult(a, b) ==
  \E i \in 1..4 : a[i] < b[i] /\ \A j \in 1..(i - 1) : a[j] = b[j]

Negative(a) == a[1] >= Limb \div 2

\* a < b for int64_t.
slt(a, b) ==
  IF Negative(a) # Negative(b) THEN Negative(a) ELSE ult(a, b)

\* The integral types a struct member may have, by their width in bits.
SignedTargets == {8, 16, 32, 64}
UnsignedTargets == {8, 16, 32, 64}

\* 2^(bits) - 1 and 2^(bits - 1) - 1 for bits <= 32, as 64-bit patterns.
AllOnes(bits) ==
  IF bits = 8 THEN <<0, 0, 0, 255>>
  ELSE IF bits = 16 THEN <<0, 0, 0, Limb - 1>>
  ELSE <<0, 0, Limb - 1, Limb - 1>>

\* std::numeric_limits<To>::max() and min() of a signed To narrower than 64
\* bits, promoted to int64_t.
signed_max(bits) ==
  IF bits = 8 THEN FromInt(127)
  ELSE IF bits = 16 THEN FromInt(32767)
  ELSE <<0, 0, Limb \div 2 - 1, Limb - 1>>

signed_min(bits) ==
  IF bits = 8 THEN FromInt(-128)
  ELSE IF bits = 16 THEN FromInt(-32768)
  ELSE <<Limb - 1, Limb - 1, Limb \div 2, 0>>

\* std::numeric_limits<To>::max() and min() of an unsigned To narrower than
\* 64 bits.
unsigned_max(bits) == AllOnes(bits)
unsigned_min(bits) == FromInt(0)

\* detail::narrow_cast<To>(src): the low bits of src, read as a To and shown
\* as the 64-bit pattern of that value.
narrow_cast(src, bits, signed) ==
  IF bits = 64 THEN src
  ELSE LET low == IF bits = 8 THEN <<0, 0, 0, src[4] % 256>>
                  ELSE IF bits = 16 THEN <<0, 0, 0, src[4]>>
                  ELSE <<0, 0, src[3], src[4]>>
           top == IF bits = 8 THEN low[4] >= 128
                  ELSE IF bits = 16 THEN low[4] >= Limb \div 2
                  ELSE low[3] >= Limb \div 2
       IN IF ~(signed /\ top) THEN low
          ELSE IF bits = 8 THEN <<Limb - 1, Limb - 1, Limb - 1,
                                  Limb - 256 + low[4]>>
          ELSE IF bits = 16 THEN <<Limb - 1, Limb - 1, Limb - 1, low[4]>>
          ELSE <<Limb - 1, Limb - 1, low[3], low[4]>>

\* The outcome of a conversion: the error and the destination afterwards.
Converted(value) == [err |-> "none", dst |-> value]
ConvertError(dst) == [err |-> "convert_error", dst |-> dst]

\* convert(const count&, To&, legacy_count_type) for an unsigned To.
convert_count(src, dst, bits) ==
  IF bits >= 64 THEN Converted(src)
  ELSE IF ult(src, unsigned_min(bits)) \/ ult(unsigned_max(bits), src)
    THEN ConvertError(dst)
  ELSE Converted(narrow_cast(src, bits, FALSE))

\* convert(const integer&, To&, legacy_count_type) for an unsigned To.
convert_integer_to_unsigned(src, dst, bits) ==
  IF slt(src, FromInt(0)) THEN ConvertError(dst)
  ELSE IF bits >= 64 THEN Converted(src)
  ELSE IF slt(unsigned_max(bits), src) THEN ConvertError(dst)
  ELSE Converted(narrow_cast(src, bits, FALSE))

\* The conversion of an integer without the range check.
convert_integer_unchecked(src, dst, bits) ==
  Converted(narrow_cast(src, bits, TRUE))

\* convert(const integer&, To&, legacy_integer_type) for a signed To.
convert_integer(src, dst, bits) ==
  IF bits >= 64 THEN Converted(src)
  ELSE IF slt(src, signed_min(bits)) \/ slt(signed_max(bits), src)
    THEN ConvertError(dst)
  ELSE Converted(narrow_cast(src, bits, TRUE))

\* The 64-bit values converted: the values around the limits of the targets.
Sources64 ==
  { FromInt(n) : n \in {-32769, -32768, -129, -128, -1, 0, 1, 42, 127, 128,
                        255, 256, 32767, 32768, 65535, 65536} }
  \cup { <<0, 0, Limb \div 2 - 1, Limb - 1>>,            \* 2^31 - 1
         <<0, 0, Limb \div 2, 0>>,                        \* 2^31
         <<0, 0, Limb - 1, Limb - 1>>,                    \* 2^32 - 1
         <<0, 1, 0, 0>>,                                  \* 2^32
         <<0, 1, 0, 42>>,                                 \* 2^32 + 42
         <<Limb - 1, Limb - 1, Limb \div 2, 0>>,          \* -2^31
         <<Limb - 1, Limb - 1, Limb \div 2 - 1, Limb - 1>>, \* -2^31 - 1
         <<Limb \div 2 - 1, Limb - 1, Limb - 1, Limb - 1>>, \* 2^63 - 1
         <<Limb \div 2, 0, 0, 0>> }                       \* -2^63, 2^63

CvNoCall == [op |-> "none"]

CvIdle == cnv = [map |-> <<>>, mapped |-> "none", calls |-> 0, last |-> CvNoCall]

\* convert(src, dst, type) of a 64-bit integer or count into an integral
\* member that held 7.
CvNarrow ==
  /\ cnv.last.op = "none"
  /\ \E src \in Sources64, bits \in SignedTargets \cup UnsignedTargets,
        from \in {"integer", "count"}, signed \in BOOLEAN :
       /\ from = "count" => ~signed
       /\ LET dst == FromInt(7)
              r == IF from = "count" THEN convert_count(src, dst, bits)
                   ELSE IF signed THEN convert_integer(src, dst, bits)
                   ELSE convert_integer_to_unsigned(src, dst, bits)
          IN cnv' = [cnv EXCEPT !.last = [op |-> "narrow", from |-> from,
                                          signed |-> signed, bits |-> bits,
                                          src |-> src, before |-> dst,
                                          err |-> r.err, after |-> r.dst]]
  /\ UNCHANGED <<fsVars, pvVars, ptVars, sgm, rdr, tbl, utlVars>>

\* ---- records to structs

\* Data: a type tag, the number of an integer or a count, and the elements
\* of a list.
DNil == [t |-> "nil", v |-> 0, xs |-> <<>>]
DInt(n) == [t |-> "integer", v |-> n, xs |-> <<>>]
DCount(n) == [t |-> "count", v |-> n, xs |-> <<>>]
\* A string is its number in Strings.
Strings == <<"x", "y", "z">>
DString(n) == [t |-> "string", v |-> n, xs |-> <<>>]
DList(xs) == [t |-> "list", v |-> 0, xs |-> xs]

\* The members a struct may have: integer, std::optional<integer> and
\* std::vector<count>.  A member's value is a sequence: the value of an
\* integer, nothing or the value of an optional, the elements of a vector.
MemberKinds == {"integer", "optional", "vector"}

\* To{}
Default(kind) == IF kind = "integer" THEN <<0>> ELSE <<>>

\* The type a layout declares for a member of the kind.
Declared(kind) == IF kind = "vector" THEN "list" ELSE "integer"

\* convert(const data&, count&, const legacy_type&) of an element of a list
\* of counts: only a count has an overload.
convert_element(d) ==
  IF d.t = "count" THEN Converted(d.v)
    ELSE ConvertError(0)

\* convert(const list&, To&, const legacy_list_type&): each element is
\* converted and pushed back; the first failure ends the loop.
convert_list(src, dst) ==
  LET RECURSIVE go(_, _)
      go(i, out) ==
        IF i > Len(src) THEN Converted(out)
        ELSE LET r == convert_element(src[i])
             IN IF r.err # "none" THEN ConvertError(out)
                ELSE go(i + 1, Append(out, r.dst))
  IN go(1, dst)

\* convert(d, dst, t) as record_inspector::apply finds it for a member: the
\* overload for equal types, the one for optionals (which engages the
\* optional first), the one for lists; no overload is an error.
convert_member(d, dst, kind, type) ==
  IF kind = "integer"
    THEN IF d.t = "integer" THEN Converted(<<d.v>>) ELSE ConvertError(dst)
  ELSE IF kind = "optional"
    THEN LET engaged == IF dst = <<>> THEN Default("integer") ELSE dst
         IN IF d.t = "integer" THEN Converted(<<d.v>>)
            ELSE ConvertError(engaged)
  ELSE IF d.t = "list" /\ type = "list" THEN convert_list(d.xs, dst)
  ELSE ConvertError(dst)

\* record_inspector::apply without the test for alias and none types.
apply_any_type(field, dst, kind, src) ==
  IF field.name \notin DOMAIN src THEN Converted(dst)
  ELSE IF src[field.name].t = "nil" THEN Converted(Default(kind))
  ELSE convert_member(src[field.name], dst, kind, field.type)

\* record_inspector::apply(f, dst)
apply(field, dst, kind, src) ==
  IF field.name \notin DOMAIN src THEN Converted(dst)
  ELSE IF field.type \in {"alias", "none"} THEN ConvertError(dst)
  ELSE IF src[field.name].t = "nil" THEN Converted(Default(kind))
  ELSE convert_member(src[field.name], dst, kind, field.type)

\* convert(const record& src, To& dst, const legacy_record_type& layout):
\* record_inspector::operator() applies the members in order, up to the
\* first error (caf::error::eval).
convert_record(src, dst, kinds, layout) ==
  LET RECURSIVE go(_, _)
      go(i, out) ==
        IF i > Len(kinds) THEN Converted(out)
        ELSE LET r == apply(layout[i], out[i], kinds[i], src)
                 next == [out EXCEPT ![i] = r.dst]
             IN IF r.err # "none" THEN ConvertError(next)
                ELSE go(i + 1, next)
  IN go(1, dst)

\* The names of the members and of their fields.
MemberNames == <<"a", "b", "c">>

\* The values a member may hold before the call.
Befores(kind) ==
  IF kind = "integer" THEN {<<1337>>}
  ELSE IF kind = "optional" THEN {<<>>, <<22>>}
  ELSE {<<7>>}

\* The values a field of the source record may have.
FieldData ==
  {DNil, DInt(42), DCount(666), DList(<<DCount(1)>>),
   DList(<<DCount(1), DString(1)>>)}

\* convert(r, x) for a record r and a struct x.
CvRecord ==
  /\ cnv.last.op = "none"
  /\ \E n \in 1..MaxMembers :
       \E kinds \in [1..n -> MemberKinds],
          types \in [1..n -> {"declared", "alias", "none"}],
          present \in SUBSET (1..n) :
         \E dst \in [1..n -> UNION { Befores(k) : k \in MemberKinds }],
            data \in [present -> FieldData] :
           /\ \A i \in 1..n : dst[i] \in Befores(kinds[i])
           /\ LET layout == [i \in 1..n |->
                               [name |-> MemberNames[i],
                                type |-> IF types[i] = "declared"
                                           THEN Declared(kinds[i])
                                           ELSE types[i]]]
                  src == [name \in { MemberNames[i] : i \in present } |->
                            data[CHOOSE i \in present : MemberNames[i] = name]]
                  r == convert_record(src, dst, kinds, layout)
              IN cnv' = [cnv EXCEPT !.last = [op |-> "record",
                                              kinds |-> kinds,
                                              layout |-> layout,
                                              src |-> src,
                                              before |-> dst,
                                              err |-> r.err,
                                              after |-> r.dst]]
  /\ UNCHANGED <<fsVars, pvVars, ptVars, sgm, rdr, tbl, utlVars>>

\* ---- lists of records to maps

\* The mapped types: X<integer> has no mappend, iList has one.
MappedTypes == {"X", "iList"}

\* concepts::semigroup<mapped_type>
semigroup(mapped) == mapped = "iList"

\* The kind of the one member of a mapped type.
MemberOf(mapped) == IF mapped = "X" THEN "integer" ELSE "vector"

\* iList's mappend
mappend(lhs, rhs) == <<lhs[1] \o rhs[1]>>

\* insert_to_map that replaces the entry of a key it finds.
insert_overwrites(dst, key, value, mapped) ==
  Converted([k \in DOMAIN dst \cup {key} |->
               IF k = key THEN value ELSE dst[k]])

\* detail::insert_to_map(dst, key, value)
insert_to_map(dst, key, value, mapped) ==
  IF key \notin DOMAIN dst
    THEN Converted([k \in DOMAIN dst \cup {key} |->
                      IF k = key THEN value ELSE dst[k]])
  ELSE IF semigroup(mapped)
    THEN Converted([dst EXCEPT ![key] = mappend(dst[key], value)])
  ELSE ConvertError(dst)

\* The leaves of the record type of the list's elements.
Leaf(name, type, key) == [name |-> name, type |-> type, key |-> key]

\* The record types of the elements: "name" is the key, no leaf is, both
\* leaves are.
ElementLayouts(mapped) ==
  { <<Leaf("value", Declared(MemberOf(mapped)), FALSE),
      Leaf("name", "string", TRUE)>>,
    <<Leaf("value", Declared(MemberOf(mapped)), FALSE),
      Leaf("name", "string", FALSE)>>,
    <<Leaf("value", Declared(MemberOf(mapped)), TRUE),
      Leaf("name", "string", TRUE)>> }

\* The leaves with the "key" attribute.
key_fields(layout) == { i \in DOMAIN layout : layout[i].key }

\* remove_field(*r, path)
remove_field(layout, i) ==
  [j \in 1..(Len(layout) - 1) |-> IF j < i THEN layout[j] ELSE layout[j + 1]]

\* An element of the list: a record with a value and, unless key is 0, the
\* name Strings[key]; or something that is no record.
ListElements ==
  [rec : {TRUE}, key : 0..2] \cup {[rec |-> FALSE, key |-> 0]}

\* The record of an element, by field name.
record_of(e, mapped) ==
  [name \in {"value"} \cup (IF e.key = 0 THEN {} ELSE {"name"}) |->
     IF name = "name" THEN DString(e.key)
     ELSE IF mapped = "X" THEN DInt(1) ELSE DList(<<DCount(1)>>)]

\* convert(const list& src, To& dst, const legacy_list_type& t) for a map
\* dst: the loop over the elements, from the i-th.
RECURSIVE convert_elements(_, _, _, _, _, _)
convert_elements(src, i, dst, layout, key_field, mapped) ==
  IF i > Len(src) THEN Converted(dst)
  ELSE IF ~src[i].rec THEN ConvertError(dst)
  ELSE LET rec == record_of(src[i], mapped)
       IN IF layout[key_field].name \notin DOMAIN rec
            THEN convert_elements(src, i + 1, dst, layout, key_field, mapped)
          ELSE LET key == Strings[rec[layout[key_field].name].v]
                   value == convert_record(rec,
                                           <<Default(MemberOf(mapped))>>,
                                           <<MemberOf(mapped)>>,
                                           remove_field(layout, key_field))
                   r == insert_to_map(dst, key, value.dst, mapped)
               IN IF value.err # "none" THEN ConvertError(dst)
                  ELSE IF r.err # "none" THEN ConvertError(r.dst)
                  ELSE convert_elements(src, i + 1, r.dst, layout, key_field,
                                        mapped)

\* convert(const list& src, To& dst, const legacy_list_type& t) for a map dst
convert_list_to_map(src, dst, layout, mapped) ==
  IF Cardinality(key_fields(layout)) # 1 THEN ConvertError(dst)
  ELSE convert_elements(src, 1, dst, layout,
                        CHOOSE i \in key_fields(layout) : TRUE, mapped)

\* convert(l, x, layout) for a list l and a map x; the first call fixes the
\* mapped type of x.
CvListToMap ==
  /\ cnv.last.op \in {"none", "map"}
  /\ cnv.calls < MaxMapCalls
  /\ \E mapped \in MappedTypes, n \in 0..MaxListLen :
       \E src \in [1..n -> ListElements], layout \in ElementLayouts(mapped) :
         /\ cnv.mapped \in {"none", mapped}
         /\ LET r == convert_list_to_map(src, cnv.map, layout, mapped)
            IN cnv' = [map |-> r.dst,
                       mapped |-> mapped,
                       calls |-> cnv.calls + 1,
                       last |-> [op |-> "map",
                                 layout |-> layout,
                                 src |-> src,
                                 before |-> cnv.map,
                                 err |-> r.err,
                                 after |-> r.dst]]
  /\ UNCHANGED <<fsVars, pvVars, ptVars, sgm, rdr, tbl, utlVars>>

\* ---------------------------------------------------------------------
\* Table slice builder and value index, as the fixture table_slices uses
\* them.
\* ---------------------------------------------------------------------

\* Cells: nil, integers and booleans.
CellNil == [tag |-> "nil", n |-> 0]
CellInt(n) == [tag |-> "integer", n |-> n]
CellBool(n) == [tag |-> "bool", n |-> n]

CellValues == {CellNil, CellInt(-7), CellInt(7), CellBool(1)}

ColumnTypes == {"integer", "bool"}

\* The value's tag fits the column's type; nil fits every column.
compatible(x, type) == x.tag = "nil" \/ x.tag = type

\* table_slice_builder::add(value_view): the next cell in row-major order.
tsb_add(b, x) ==
  IF compatible(x, b.layout[(Len(b.cells) % Len(b.layout)) + 1])
    THEN [ok |-> TRUE, b |-> [b EXCEPT !.cells = Append(@, x)]]
    ELSE [ok |-> FALSE, b |-> b]

\* table_slice_builder::finish(): the slice of the rows added, and the
\* builder without them.
tsb_finish(b) ==
  [slice |-> [rows |-> Len(b.cells) \div Len(b.layout),
              columns |-> Len(b.layout),
              cells |-> b.cells,
              offset |-> 0],
   b |-> [b EXCEPT !.cells = <<>>]]

EmptySlice == [rows |-> 0, columns |-> 0, cells |-> <<>>, offset |-> 0]

\* table_slice::at(row, col), rows and columns counted from 0.
slice_at(slice, row, col) == slice.cells[row * slice.columns + col + 1]

\* make_slice that feeds the test data column by column.
make_slice_by_column(b, test_data) ==
  LET RECURSIVE go(_, _, _)
      go(row, col, cur) ==
        IF test_data = <<>> \/ col > Len(test_data[1])
          THEN [ok |-> TRUE, slice |-> tsb_finish(cur).slice,
                b |-> tsb_finish(cur).b]
        ELSE IF row > Len(test_data) THEN go(1, col + 1, cur)
        ELSE LET r == tsb_add(cur, test_data[row][col])
             IN IF ~r.ok THEN [ok |-> FALSE, slice |-> EmptySlice, b |-> r.b]
                ELSE go(row + 1, col, r.b)
  IN go(1, 1, b)

\* table_slices::make_slice(): every value of every row of test_data is
\* added, a failing add ends the test; then finish().
make_slice(b, test_data) ==
  LET RECURSIVE go(_, _, _)
      go(row, col, cur) ==
        IF row > Len(test_data)
          THEN [ok |-> TRUE, slice |-> tsb_finish(cur).slice,
                b |-> tsb_finish(cur).b]
        ELSE IF col > Len(test_data[row]) THEN go(row + 1, 1, cur)
        ELSE LET r == tsb_add(cur, test_data[row][col])
             IN IF ~r.ok THEN [ok |-> FALSE, slice |-> EmptySlice, b |-> r.b]
                ELSE go(row, col + 1, r.b)
  IN go(1, 1, b)

\* slice.offset(o) that leaves the offset as it was.
offset_ignored(slice, o) == slice

\* slice.offset(o)
offset(slice, o) == [slice EXCEPT !.offset = o]

\* ---- value index

\* An id the index skipped over: no row of the column has it.
Skipped == [tag |-> "skipped", n |-> 0]

\* factory<value_index>::make(type, settings)
make_index(type) == [type |-> type, offset |-> 0, entries |-> <<>>]

\* value_index::append(value, id): skips to id, then appends; a nil value is
\* the null entry of its id.
vi_append(idx, x, id) ==
  [idx EXCEPT !.entries = @ \o [j \in 1..(id - idx.offset) |-> Skipped]
                            \o <<x>>,
              !.offset = id + 1]

\* table_slice::append_column_to_index(column, idx): the cell of every row,
\* at the id offset + row.
append_column_to_index(slice, column, idx) ==
  LET RECURSIVE go(_, _)
      go(row, cur) ==
        IF row >= slice.rows THEN cur
        ELSE go(row + 1,
                vi_append(cur, slice_at(slice, row, column),
                          slice.offset + row))
  IN go(0, idx)

RelationalOperators ==
  {"equal", "not_equal", "less", "less_equal", "greater", "greater_equal"}

\* lhs op rhs on numbers
compare(lhs, op, rhs) ==
  IF op = "equal" THEN lhs = rhs
  ELSE IF op = "not_equal" THEN lhs # rhs
  ELSE IF op = "less" THEN lhs < rhs
  ELSE IF op = "less_equal" THEN lhs <= rhs
  ELSE IF op = "greater" THEN lhs > rhs
  ELSE lhs >= rhs

\* The operator and the value make a predicate on a column of the type:
\* nil is compared for equality only, booleans are not ordered.
valid(type, op, v) ==
  IF v.tag = "nil" \/ type = "bool"
    THEN op \in {"equal", "not_equal"} /\ v.tag \in {"nil", type}
    ELSE v.tag = type

\* value_index::lookup(op, rhs): the ids whose entry satisfies the
\* predicate; a null entry satisfies == nil only, a skipped id nothing.
vi_lookup(idx, op, v) ==
  { id \in 0..(idx.offset - 1) :
      LET x == idx.entries[id + 1]
      IN /\ x.tag # "skipped"
         /\ IF v.tag = "nil"
              THEN (op = "equal") = (x.tag = "nil")
              ELSE x.tag # "nil" /\ compare(x.n, op, v.n) }

\* ---- the fixture

NotIndexed == [slice |-> EmptySlice, column |-> 0, offset |-> 0, done |-> FALSE]

\* table_slices::table_slices(), initialize(): the layout, the test data and
\* a builder over the layout.
TbInitOf(layout, test_data) ==
  tbl = [layout |-> layout,
         test_data |-> test_data,
         builder |-> [layout |-> layout, cells |-> <<>>],
         slices |-> <<>>,
         failed |-> FALSE,
         makes |-> 0,
         idx |-> make_index("integer"),
         indexed |-> NotIndexed]

TbIdle == TbInitOf(<<"integer">>, <<<<CellNil>>>>)

\* test_add, test_equality: slice = make_slice()
TbMakeSlice ==
  /\ ~tbl.failed
  /\ tbl.makes < MaxMakes
  /\ LET r == make_slice(tbl.builder, tbl.test_data)
     IN tbl' = [tbl EXCEPT !.builder = r.b,
                           !.slices = IF r.ok THEN Append(@, r.slice) ELSE @,
                           !.failed = ~r.ok,
                           !.makes = @ + 1]
  /\ UNCHANGED <<fsVars, pvVars, ptVars, sgm, rdr, cnv, utlVars>>

\* test_append_column_to_index: a new index of the column's type, a slice
\* from make_slice, its offset, and the column appended to the index.
TbAppendColumn ==
  /\ ~tbl.failed
  /\ ~tbl.indexed.done
  /\ \E o \in 0..MaxIdxOffset, column \in 0..(Len(tbl.layout) - 1) :
       LET r == make_slice(tbl.builder, tbl.test_data)
           slice == offset(r.slice, o)
           idx == make_index(tbl.layout[column + 1])
       IN tbl' = IF r.ok
                   THEN [tbl EXCEPT
                           !.builder = r.b,
                           !.idx = append_column_to_index(slice, column, idx),
                           !.indexed = [slice |-> r.slice,
                                        column |-> column,
                                        offset |-> o,
                                        done |-> TRUE]]
                   ELSE [tbl EXCEPT !.builder = r.b, !.failed = TRUE]
  /\ UNCHANGED <<fsVars, pvVars, ptVars, sgm, rdr, cnv, utlVars>>

\* ------------------------------------------------------------------ merge

\* A config value: a string s, an integer xs[1], a list xs of integers or a
\* dictionary d from keys to config values.
NoEntries == [k \in {} |-> 0]
CfgString(s) == [t |-> "string", s |-> s, xs |-> <<>>, d |-> NoEntries]
CfgInteger(n) == [t |-> "integer", s |-> "", xs |-> <<n>>, d |-> NoEntries]
CfgList(xs) == [t |-> "list", s |-> "", xs |-> xs, d |-> NoEntries]
CfgDict(d) == [t |-> "dictionary", s |-> "", xs |-> <<>>, d |-> d]

\* dst[key].as_dictionary(): the dictionary held, or the empty one the
\* value is replaced by; operator[] makes a missing key first.
as_dictionary(dst, key) ==
  IF key \in DOMAIN dst /\ dst[key].t = "dictionary" THEN dst[key].d
  ELSE NoEntries

\* The list insertion with src's elements put in front.
insert_at_begin(dst_list, src_list) == src_list \o dst_list

\* dst_list.insert(dst_list.end(), src_list.begin(), src_list.end()).
insert_at_end(dst_list, src_list) == dst_list \o src_list

\* merge_settings_impl(src, dst, merge_lists, depth): the value of dst
\* afterwards.  The keys of src are independent of each other; the nesting
\* stays far below the depth of 100 at which the function gives up.
RECURSIVE merge_settings_impl(_, _, _)
merge_settings_impl(src, dst, merge_lists) ==
  [key \in DOMAIN dst \cup DOMAIN src |->
     IF key \notin DOMAIN src THEN dst[key]
     ELSE IF src[key].t = "dictionary"
       THEN CfgDict(merge_settings_impl(src[key].d, as_dictionary(dst, key),
                                        merge_lists))
     ELSE IF /\ merge_lists = "yes"
             /\ src[key].t = "list"
             /\ key \in DOMAIN dst
             /\ dst[key].t = "list"
       THEN CfgList(insert_at_end(dst[key].xs, src[key].xs))
     ELSE src[key]]

\* merge(src, dst, merge_lists).
merge(src, dst, merge_lists) == merge_settings_impl(src, dst, merge_lists)

\* The inputs: dictionaries over two keys, nested once, whose leaves are a
\* string or a list that tells src from dst.
MergeKeys == {"a", "b"}
MergePolicies == {"no", "yes"}
Dicts(values) == UNION { [S -> values] : S \in SUBSET MergeKeys }
SrcLeaves == {CfgString("foo"), CfgList(<<1>>)}
DstLeaves == {CfgString("bar"), CfgList(<<2>>)}
SrcSettings == Dicts(SrcLeaves \cup { CfgDict(d) : d \in Dicts(SrcLeaves) })
DstSettings == Dicts(DstLeaves \cup { CfgDict(d) : d \in Dicts(DstLeaves) })

\* merge(src, dst, merge_lists), once and again with the same src.
MgMerge ==
  /\ mrg.calls < MaxMerges
  /\ mrg' = [mrg EXCEPT !.dst = merge(mrg.src, mrg.dst, mrg.merge_lists),
                        !.before = mrg.dst,
                        !.calls = @ + 1]
  /\ UNCHANGED <<fsVars, pvVars, ptVars, sgm, rdr, cnv, tbl, adr, syn>>

MgInitOf(src, dst, merge_lists) ==
  mrg = [src |-> src, dst |-> dst, merge_lists |-> merge_lists,
         before |-> dst, calls |-> 0]

MgIdle == MgInitOf(NoEntries, NoEntries, "no")

\* ------------------------------------------------------------------ address parser

\* A text is a sequence of characters, each a string of length one.
DigitChars == <<"0", "1", "2", "3", "4", "5", "6", "7", "8", "9">>
HexChars == DigitChars \o <<"a", "b", "c", "d", "e", "f">>

\* *f, or the empty string at l.
At(text, i) == IF i \in 1..Len(text) THEN text[i] ELSE ""

isdigit(c) == \E n \in 1..Len(DigitChars) : DigitChars[n] = c
xdigit(c) == \E n \in 1..Len(HexChars) : HexChars[n] = c
HexValue(c) == (CHOOSE n \in 1..Len(HexChars) : HexChars[n] = c) - 1

\* The characters from i on that are digits to the base given, at most max
\* of them.
Run(base, text, i, max) ==
  LET P(c) == IF base = 10 THEN isdigit(c) ELSE xdigit(c)
  IN CHOOSE n \in 0..max :
       /\ \A k \in 0..(n - 1) : P(At(text, i + k))
       /\ n = max \/ ~P(At(text, i + n))

\* The number written by the n digits from i on, to the base given.
RECURSIVE Number(_, _, _, _)
Number(text, i, n, base) ==
  IF n <= 0 THEN 0
  ELSE Number(text, i, n - 1, base) * base + HexValue(text[i + n - 1])

\* A parser that has failed: f is where it was.
NoMatch == [ok |-> FALSE, next |-> 0, val |-> 0]
NoQuad == [ok |-> FALSE, next |-> 0, bytes |-> <<>>]

\* The integral parser after it has found n digits at i.
Digits(text, i, n) ==
  IF n < MinDigits THEN NoMatch
  ELSE [ok |-> TRUE, next |-> i + n, val |-> Number(text, i, n, 10)]

\* integral_parser<uint16_t, MaxDigits, MinDigits>: the digits at f, at
\* most MaxDigits and at least MinDigits of them.
integral_parser(text, i) == Digits(text, i, Run(10, text, i, MaxDigits))

\* .with([](auto i) { return i < 256; }) on the result r of the parser.
with_guard(r) == IF r.ok /\ r.val < OctetLimit THEN r ELSE NoMatch

\* dec of make_v4: the integral parser with the guard i < 256.
dec(text, i) == with_guard(integral_parser(text, i))

\* make_v4() from the octet at i on, bytes being the attributes so far and
\* r the result of dec at i: dec >> '.' >> dec >> '.' >> dec >> '.' >> dec.
RECURSIVE v4_from(_, _, _), v4_next(_, _, _)
v4_from(text, i, bytes) == v4_next(text, bytes, dec(text, i))
v4_next(text, bytes, r) ==
  IF ~r.ok THEN NoQuad
  ELSE IF Len(bytes) = 3
    THEN [ok |-> TRUE, next |-> r.next, bytes |-> Append(bytes, r.val)]
  ELSE IF At(text, r.next) = "."
    THEN v4_from(text, r.next + 1, Append(bytes, r.val))
  ELSE NoQuad

\* make_v4(): bytes are the four attributes.
make_v4(text, i) == v4_from(text, i, <<>>)

\* The parsers of make_v6() give the position behind their match and 0 when
\* they fail; begun at 0, behind a parser that failed, they fail: a
\* sequence a >> b is b begun where a ended.
Matched(i, n) == IF i = 0 \/ n = 0 THEN 0 ELSE i + n

\* >> c and >> !c behind a parser that ended at j.
Behind(text, j, c) == IF j # 0 /\ At(text, j) = c THEN j + 1 ELSE 0
NotBefore(text, j, c) == IF j # 0 /\ At(text, j) # c THEN j ELSE 0

\* a | b for the results j of a and k of b.
OrElse(j, k) == IF j # 0 THEN j ELSE k

\* h16: rep<1, 4>(xdigit).
h16(text, i) == Matched(i, Run(16, text, i, 4))

\* h16 >> ':'.
h16_group(text, i) == Behind(text, h16(text, i), ":")

\* h16_colon: h16 >> ':' >> !':'_p.
h16_colon(text, i) == NotBefore(text, h16_group(text, i), ":")

\* rep<min, max>(p): p as often as it matches, at most max times; p is
\* h16_colon or h16 >> ':', and k its result at i.
RECURSIVE rep(_, _, _, _, _), rep_next(_, _, _, _, _, _)
rep(p, text, i, min, max) ==
  IF max = 0 \/ i = 0 THEN i
  ELSE rep_next(p, text, i, min, max,
                IF p = "h16_colon" THEN h16_colon(text, i)
                ELSE h16_group(text, i))
rep_next(p, text, i, min, max, k) ==
  IF k # 0 THEN rep(p, text, k, min - 1, max - 1)
  ELSE IF min <= 0 THEN i ELSE 0

\* ls32: h16 >> ':' >> h16 | make_v4().
ls32(text, i) ==
  OrElse(h16(text, h16_group(text, i)), make_v4(text, i).next)

\* -(rep<0, max>(h16_colon) >> h16): the optional groups before "::".
before_gap(text, i, max) ==
  OrElse(h16(text, rep("h16_colon", text, i, 0, max)), i)

\* The alternatives of v6 in their order: the groups allowed before "::"
\* (-1: the alternative has no such part), whether "::" is there, the
\* number of h16 >> ':' behind it, and the last parser.
V6Alternatives ==
  << [before |-> -1, gap |-> FALSE, groups |-> 6, last |-> "ls32"],
     [before |-> -1, gap |-> TRUE, groups |-> 5, last |-> "ls32"],
     [before |-> 0, gap |-> TRUE, groups |-> 4, last |-> "ls32"],
     [before |-> 1, gap |-> TRUE, groups |-> 3, last |-> "ls32"],
     [before |-> 2, gap |-> TRUE, groups |-> 2, last |-> "ls32"],
     [before |-> 3, gap |-> TRUE, groups |-> 1, last |-> "ls32"],
     [before |-> 4, gap |-> TRUE, groups |-> 0, last |-> "ls32"],
     [before |-> 5, gap |-> TRUE, groups |-> 0, last |-> "h16"],
     [before |-> 6, gap |-> TRUE, groups |-> 0, last |-> "none"] >>

\* The parts of an alternative: the groups before "::", then "::" behind
\* position b, then the last parser behind position r.
v6_before(text, i, alt) ==
  IF alt.before < 0 THEN i ELSE before_gap(text, i, alt.before)
v6_gap(text, b, alt) ==
  IF alt.gap THEN Behind(text, Behind(text, b, ":"), ":") ELSE b
v6_last(text, r, alt) ==
  IF alt.last = "ls32" THEN ls32(text, r)
  ELSE IF alt.last = "h16" THEN h16(text, r)
  ELSE r

\* One alternative of v6, a sequence: it fails when one of its parts does.
v6_alternative(text, i, alt) ==
  v6_last(text,
          rep("h16_group", text, v6_gap(text, v6_before(text, i, alt), alt),
              alt.groups, alt.groups),
          alt)

\* The alternatives from the n-th on: the first that matches.
RECURSIVE v6_from(_, _, _)
v6_from(text, i, n) ==
  IF n > Len(V6Alternatives) THEN 0
  ELSE OrElse(v6_alternative(text, i, V6Alternatives[n]),
              v6_from(text, i, n + 1))

\* make_v6().
make_v6(text, i) == v6_from(text, i, 1)

\* address::v4_mapped_prefix.
v4_mapped_prefix == <<0, 0, 0, 0, 0, 0, 0, 0, 0, 0, 255, 255>>

\* The sixteen bytes with the prefix left as the address had it.
without_prefix(bytes) == [n \in 1..12 |-> 0] \o bytes

\* std::copy(v4_mapped_prefix.begin(), v4_mapped_prefix.end(),
\* a.bytes_.begin()) in front of the four bytes parsed.
with_prefix(bytes) == v4_mapped_prefix \o bytes

\* A zero in front of another digit.
LeadingZero(text, j) == At(text, j) = "0" /\ isdigit(At(text, j + 1))

\* The dotted quad r found at i is one for inet_pton as well: it ends the
\* text and no octet has a zero in front of another digit.
quad_of_inet_pton(text, i, r) ==
  IF /\ r.ok
     /\ r.next = Len(text) + 1
     /\ ~LeadingZero(text, i)
     /\ \A j \in i..Len(text) : text[j] = "." => ~LeadingZero(text, j + 1)
    THEN r
  ELSE NoQuad

\* The dotted quad as inet_pton reads it: up to three digits for an octet
\* of at most 255.
inet_pton4(text, i) == quad_of_inet_pton(text, i, make_v4(text, i))

\* The two bytes of the group of hexadecimal digits from i to before j.
group_bytes(text, i, j) ==
  <<Number(text, i, j - i, 16) \div 256, Number(text, i, j - i, 16) % 256>>

\* The groups of an IPv6 text from i on, the last of which may be a dotted
\* quad; quad and j are what the dotted quad and h16 find at i.
RECURSIVE groups_from(_, _, _), groups_next(_, _, _, _, _)
groups_from(text, i, bytes) ==
  groups_next(text, i, bytes, inet_pton4(text, i), h16(text, i))
groups_next(text, i, bytes, quad, j) ==
  IF quad.ok THEN [ok |-> TRUE, bytes |-> bytes \o quad.bytes]
  ELSE IF j = 0 THEN [ok |-> FALSE, bytes |-> <<>>]
  ELSE IF j = Len(text) + 1
    THEN [ok |-> TRUE, bytes |-> bytes \o group_bytes(text, i, j)]
  ELSE IF At(text, j) = ":" /\ j < Len(text)
    THEN groups_from(text, j + 1, bytes \o group_bytes(text, i, j))
  ELSE [ok |-> FALSE, bytes |-> <<>>]

\* The address of the groups r behind "::": zeros fill the front.
zero_filled(text, r) ==
  IF At(text, 1) = ":" /\ At(text, 2) = ":" /\ r.ok /\ Len(r.bytes) <= 14
    THEN [ok |-> TRUE,
          bytes |-> [n \in 1..(16 - Len(r.bytes)) |-> 0] \o r.bytes]
  ELSE [ok |-> FALSE, bytes |-> <<>>]

\* ::inet_pton(AF_INET6, buf, &a.bytes_) for a text that begins with "::":
\* the groups behind it are the last bytes of the address.
inet_pton(text) ==
  zero_filled(text, IF Len(text) <= 2 THEN [ok |-> TRUE, bytes |-> <<>>]
                    ELSE groups_from(text, 3, <<>>))

\* What parse makes of the result r4 of v4 and, v4 failing, of the result
\* j of v6.
address_of(text, r4, j) ==
  IF r4.ok
    THEN [ok |-> TRUE, next |-> r4.next, bytes |-> with_prefix(r4.bytes)]
  ELSE IF j # 0
    THEN [ok |-> inet_pton(SubSeq(text, 1, j - 1)).ok, next |-> j,
          bytes |-> inet_pton(SubSeq(text, 1, j - 1)).bytes]
  ELSE [ok |-> FALSE, next |-> 1, bytes |-> <<>>]

\* access::parser_base<address>::parse(f, l, a): the dotted quad behind
\* the v4-mapped prefix, or what inet_pton makes of the text v6 matched.
\* bytes stands for a.bytes_ after a successful parse only.
parse_address(text) == address_of(text, make_v4(text, 1), make_v6(text, 1))

\* f after the v4 parser with the result r.
v4_result(r) ==
  [ok |-> r.ok, next |-> IF r.ok THEN r.next ELSE 1, bytes |-> r.bytes]

\* The v4 parser on its own.
parse_v4(text) == v4_result(make_v4(text, 1))

\* The decimal numeral of n.
RECURSIVE to_decimal(_)
to_decimal(n) ==
  IF n < 10 THEN <<DigitChars[n + 1]>>
  ELSE to_decimal(n \div 10) \o <<DigitChars[(n % 10) + 1]>>

\* The texts of four octets and of four numerals with dots between them.
Dotted(parts) == parts[1] \o <<".">> \o parts[2] \o <<".">> \o parts[3]
                   \o <<".">> \o parts[4]
QuadText(octets) == Dotted([n \in 1..4 |-> to_decimal(octets[n])])
MappedText(octets) == <<":", ":", "f", "f", "f", "f", ":">> \o QuadText(octets)

\* The inputs.  Octets: one of the four takes every value, the others are
\* all the least or all the greatest.
OctetQuads ==
  { [n \in 1..4 |-> IF n = p THEN x ELSE y] :
      p \in 1..4, x \in 0..(OctetLimit - 1), y \in {0, OctetLimit - 1} }

\* Numerals that are not those of an octet: every string of the digits
\* around the limits of the grammar in one place, 1 in the others.
OctetDigits == {"0", "1", "2", "4", "5", "6", "9"}
Numerals == UNION { [1..n -> OctetDigits] : n \in 0..MaxNumeral }
NumeralTexts ==
  { Dotted([n \in 1..4 |-> IF n = p THEN s ELSE <<"1">>]) :
      p \in 1..4, s \in Numerals }

\* Texts that are no four numerals with dots between them.
OtherTexts ==
  { <<>>, <<"1", ".", "2", ".", "3">>,
    <<"1", ".", "2", ".", "3", ".", "4", ".", "5">>,
    <<"1", ".", ".", "2", ".", "3", ".", "4">>,
    <<"1", ".", "2", ".", "3", ".", "4", ".">>,
    <<".", "1", ".", "2", ".", "3", ".", "4">>,
    <<"1", ".", "2", ".", "3", ".", "4", "x">>,
    <<"1", ":", "2", ":", "3", ":", "4">> }

AdNoCall == [ok |-> FALSE, next |-> 0, bytes |-> <<>>]

AdInitOf(form, octets, text) ==
  adr = [form |-> form, octets |-> octets, text |-> text, op |-> "none",
         result |-> AdNoCall]

\* The address parser is applied to the text.
AdParseAddress ==
  /\ adr.op = "none"
  /\ adr' = [adr EXCEPT !.op = "address", !.result = parse_address(adr.text)]
  /\ UNCHANGED <<fsVars, pvVars, ptVars, sgm, rdr, cnv, tbl, mrg, syn>>

\* The v4 parser is applied to the text.
AdParseV4 ==
  /\ adr.op = "none"
  /\ adr' = [adr EXCEPT !.op = "v4", !.result = parse_v4(adr.text)]
  /\ UNCHANGED <<fsVars, pvVars, ptVars, sgm, rdr, cnv, tbl, mrg, syn>>

AdIdle == AdInitOf("other", <<>>, <<>>)

\* ------------------------------------------------------------------ bool synopsis

\* A data view: a bool, or a value of another type.
BoolView(b) == [t |-> "bool", b |-> b]
OtherView == [t |-> "integer", b |-> FALSE]
DataViews == {BoolView(TRUE), BoolView(FALSE), OtherView}

\* std::optional<bool>.
Nullopt == [known |-> FALSE, value |-> FALSE]
Known(b) == [known |-> TRUE, value |-> b]

\* add that keeps only the value added last.
add_replaces(s, x) == [s EXCEPT !.true_ = x.b, !.false_ = ~x.b]

\* bool_synopsis::add(x): the flag of the value is set.
add(s, x) ==
  IF x.b THEN [s EXCEPT !.true_ = TRUE] ELSE [s EXCEPT !.false_ = TRUE]

\* bool_synopsis::lookup(op, rhs): for a bool, equality is decided by the
\* flag of rhs and inequality by the other flag; anything else is unknown.
synopsis_lookup(s, op, rhs) ==
  IF rhs.t # "bool" THEN Nullopt
  ELSE IF op = "equal" THEN Known(IF rhs.b THEN s.true_ ELSE s.false_)
  ELSE IF op = "not_equal" THEN Known(IF rhs.b THEN s.false_ ELSE s.true_)
  ELSE Nullopt

\* bool_synopsis::any_true() and any_false().
any_true(s) == s.true_
any_false(s) == s.false_

SyNoCall == [op |-> "none", rhs |-> OtherView, result |-> Nullopt]

\* add(x) with a bool.
SyAdd ==
  /\ Len(syn.added) < MaxAdds
  /\ \E b \in BOOLEAN :
       syn' = [add(syn, BoolView(b)) EXCEPT !.added = Append(@, b)]
  /\ UNCHANGED <<fsVars, pvVars, ptVars, sgm, rdr, cnv, tbl, mrg, adr>>

\* lookup(op, rhs).
SyLookup ==
  /\ \E op \in RelationalOperators, rhs \in DataViews :
       syn' = [syn EXCEPT !.last = [op |-> op, rhs |-> rhs,
                                   result |-> synopsis_lookup(syn, op, rhs)]]
  /\ UNCHANGED <<fsVars, pvVars, ptVars, sgm, rdr, cnv, tbl, mrg, adr>>

\* bool_synopsis(type): both flags are false.
SyInit ==
  syn = [true_ |-> FALSE, false_ |-> FALSE, added |-> <<>>, last |-> SyNoCall]

SyIdle == SyInit

\* The utilities at rest.
UtlIdle == MgIdle /\ AdIdle /\ SyIdle

\* The library components at rest.
LibIdle == SgInit /\ RdIdle /\ CvIdle /\ TbIdle /\ UtlIdle

\* ------------------------------------------------------------------ specifications

FsInit == FsInitOf("posix") /\ PvIdle /\ PtIdle /\ LibIdle

FsNext ==
  \/ ClientSend
  \/ FsWrite
  \/ FsRead
  \/ FsMmap
  \/ FsStatus

FsSpec == FsInit /\ [][FsNext]_vars

\* The filesystem actor with two senders that write and read one file.
SendersNext ==
  \/ SenderSend
  \/ FsWrite
  \/ FsRead

SendersSpec == FsInit /\ [][SendersNext]_vars

PivotInit == FsInitOf("posix") /\ PvInitOf(Targets) /\ PtIdle /\ LibIdle

\* The pivoter and the slices of the initial query, up to its final status
\* (the node's answers to the spawn requests are still under way).
PivotNext ==
  \/ PvSlice
  \/ PvStatus

PivotSpec == PivotInit /\ [][PivotNext]_vars

\* The pivoter and its exporters; the slices delivered have one row.
PivotLifeNext ==
  \/ PvSliceOne
  \/ PvSpawned
  \/ PvSpawnFailed
  \/ PvDown
  \/ PvStatus
  \/ PvSink

PivotLifeSpec == PivotInit /\ [][PivotLifeNext]_vars

\* The same, in the runs where the final status of the initial query
\* arrives, the node answers every spawn request and every exporter it
\* spawned terminates.
PivotFairSpec ==
  /\ PivotInit
  /\ [][PivotLifeNext]_vars
  /\ WF_vars(PvStatus)
  /\ WF_vars(PvSpawned \/ PvSpawnFailed)
  /\ WF_vars(PvDown)

\* A partition from its creation to its erasure, on the POSIX filesystem; or
\* a passive partition on the mock filesystem, as in the partition test.
PartInit ==
  /\ \E kind \in {"posix", "mock"} : FsInitOf(kind)
  /\ PvIdle
  /\ PtInitOf("active")
  /\ LibIdle

PartNext ==
  \/ ApSeal
  \/ ApWritten
  \/ ApWriteFailed
  \/ PpSpawn
  \/ PpChunk
  \/ PpLoaded
  \/ PpRequest
  \/ PpStatus
  \/ PpSkip
  \/ PpQuery
  \/ PpErase
  \/ PpRejected
  \/ PtRead
  \/ FsWrite
  \/ FsRead
  \/ FsMmap
  \/ MockMmap
  \/ MockRead

PartSpec == PartInit /\ [][PartNext]_vars

\* No actor runs.
ActorsIdle == FsInitOf("posix") /\ PvIdle /\ PtIdle

\* A segment builder, the segment it finishes and the lookups on it.
SegInit == ActorsIdle /\ SgInit /\ RdIdle /\ CvIdle /\ TbIdle /\ UtlIdle

SegNext ==
  \/ SbAdd
  \/ SbFinish
  \/ SgNone
  \/ SgLookup
  \/ SgIds
  \/ SgNumSlices
  \/ SgId

SegSpec == SegInit /\ [][SegNext]_vars

\* One read of the syslog reader.
ReadInit ==
  /\ ActorsIdle
  /\ UtlIdle
  /\ SgInit
  /\ CvIdle
  /\ TbIdle
  /\ \E n \in 0..MaxLines, max_events \in 1..MaxEvents,
        max_slice_size \in 1..MaxSliceSize :
       \E lines \in [1..n -> LineKinds] :
         RdInitOf(lines, max_events, max_slice_size)

ReadNext ==
  \/ RdLine
  \/ RdFull
  \/ RdEndOfInput
  \/ RdBatchTimeout
  \/ RdStalled

ReadSpec == ReadInit /\ [][ReadNext]_vars

\* The same reader, read again after each stall.
ReadResumeNext ==
  \/ ReadNext
  \/ RdResume

ReadResumeSpec == ReadInit /\ [][ReadResumeNext]_vars

\* Conversions of data into the members of a struct and into a map.
ConvInit == ActorsIdle /\ SgInit /\ RdIdle /\ CvIdle /\ TbIdle /\ UtlIdle

ConvNext ==
  \/ CvNarrow
  \/ CvRecord
  \/ CvListToMap

ConvSpec == ConvInit /\ [][ConvNext]_vars

\* ---- table slices and value index ----

\* The fixture's test data has rows (two, in the source): no reader hands on
\* a slice without rows.
TblInit ==
  /\ ActorsIdle
  /\ UtlIdle
  /\ SgInit
  /\ RdIdle
  /\ CvIdle
  /\ \E columns \in 1..MaxColumns, rows \in 1..MaxTblRows :
       /\ rows * columns <= MaxCells
       /\ \E layout \in [1..columns -> ColumnTypes],
             test_data \in [1..rows -> [1..columns -> CellValues]] :
            TbInitOf(layout, test_data)

TblNext ==
  \/ TbMakeSlice
  \/ TbAppendColumn

TblSpec == TblInit /\ [][TblNext]_vars

\* ---- address parser ----

AddrInit ==
  /\ ActorsIdle
  /\ SgInit /\ RdIdle /\ CvIdle /\ TbIdle
  /\ MgIdle /\ SyIdle
  /\ \/ \E octets \in OctetQuads :
          \/ AdInitOf("quad", octets, QuadText(octets))
          \/ AdInitOf("mapped", octets, MappedText(octets))
     \/ \E text \in NumeralTexts \cup OtherTexts :
          AdInitOf("other", <<>>, text)

AddrNext ==
  \/ AdParseAddress
  \/ AdParseV4

AddrSpec == AddrInit /\ [][AddrNext]_vars

\* ---- bool synopsis ----

SynInit ==
  /\ ActorsIdle
  /\ SgInit /\ RdIdle /\ CvIdle /\ TbIdle
  /\ MgIdle /\ AdIdle
  /\ SyInit

SynNext ==
  \/ SyAdd
  \/ SyLookup

SynSpec == SynInit /\ [][SynNext]_vars

\* ---- merge ----

MergeInit ==
  /\ ActorsIdle
  /\ SgInit /\ RdIdle /\ CvIdle /\ TbIdle
  /\ AdIdle /\ SyIdle
  /\ \E src \in SrcSettings, dst \in DstSettings,
        merge_lists \in MergePolicies :
       MgInitOf(src, dst, merge_lists)

MergeNext == MgMerge

MergeSpec == MergeInit /\ [][MergeNext]_vars

\* ------------------------------------------------------------------ claims
\* (filesystem actor)

\* The path std::filesystem gives for a filename under the root.
Resolved(filename) == path_append(root, filename)

\* A request of one of `kinds` is being handled in this step.
Handling(kinds) ==
  /\ fs_mailbox # <<>>
  /\ Head(fs_mailbox).kind \in kinds
  /\ fs_mailbox' = Tail(fs_mailbox)

\* C1: the bytes counter of each operation kind equals the number of bytes
\* moved by the successful requests of that kind (failed requests add
\* nothing).
C1_BytesEqualBytesMoved ==
  /\ fs_stats.writes.bytes = fs_moved.writes
  /\ fs_stats.reads.bytes = fs_moved.reads
  /\ fs_stats.mmaps.bytes = fs_moved.mmaps

\* C2: a request that ends in an error leaves the actor alive and serving:
\* every handled request has exactly one reply (a value or an error), no
\* waiting request has one, and a waiting request can always be handled.
C2_FailureKeepsActorAlive ==
  /\ fs_alive
  /\ \A id \in DOMAIN fs_replies :
       IF \E i \in 1..Len(fs_mailbox) : fs_mailbox[i].id = id
         THEN fs_replies[id] = <<>>
         ELSE /\ Len(fs_replies[id]) = 1
              /\ fs_replies[id][1].ok = (fs_replies[id][1].err = "none")
  /\ fs_mailbox # <<>> => ENABLED (FsWrite \/ FsRead \/ FsMmap \/ FsStatus)

C2_Witness ==
  \E i, j \in DOMAIN fs_replies :
    /\ i < j
    /\ Len(fs_replies[i]) = 1
    /\ fs_replies[i][1].err = "save_error"
    /\ Len(fs_replies[j]) = 1

\* C3: a read or mmap of a path that does not exist is answered with
\* no_such_file, adds one to checks.failed, changes no other counter, and
\* calls neither io::read nor chunk::mmap.
C3_MissingFileIsNoSuchFile ==
  [][ (Handling({"read", "mmap"})
        /\ ~exists(Resolved(Head(fs_mailbox).filename)))
      => /\ fs_replies'[Head(fs_mailbox).id] = <<Error("no_such_file")>>
         /\ fs_stats'.checks.failed = fs_stats.checks.failed + 1
         /\ fs_stats' = [fs_stats EXCEPT !.checks.failed = @ + 1]
         /\ fs_io' = fs_io ]_vars

C3_Witness ==
  /\ fs_last.kind = "mmap"
  /\ fs_last.reply = Error("no_such_file")
  /\ fs_stats.checks.failed = 1

\* C4: write, read and mmap operate on root/filename for a relative filename
\* and on the filename itself for an absolute one: the file a successful
\* write leaves, and the file a successful read or mmap returns, is the one
\* at that path.
C4_PathResolution ==
  LET expected == IF is_absolute(fs_last.filename)
                    THEN fs_last.filename
                    ELSE root \o fs_last.filename
  IN fs_last.kind \in {"write", "read", "mmap"} =>
       /\ fs_last.path = expected
       /\ fs_last.reply.ok =>
            /\ expected \in DOMAIN fs_disk
            /\ Len(fs_disk[expected]) = fs_last.size
            /\ fs_last.kind \in {"read", "mmap"} =>
                 fs_last.reply.val = <<fs_disk[expected]>>

C4_Witness ==
  /\ fs_last.kind = "mmap"
  /\ fs_last.filename = <<"/", "b">>
  /\ fs_last.reply.ok
  /\ fs_last.size = 2
  /\ <<"/", "r", "a">> \in DOMAIN fs_disk

\* C5: the status record grows with the verbosity: the fields of status(v)
\* are fields of status(w) for v <= w; "type" is present from info on,
\* "operations" at debug, holding successful, failed and bytes for checks,
\* writes, reads and mmaps; a debug reply carries the current counters.
C5_StatusMonotone ==
  LET Fields(v) == DOMAIN StatusRecord(v, fs_stats)
      Kinds == {"checks", "writes", "reads", "mmaps"}
  IN
  /\ \A v, w \in Verbosities : Rank(v) <= Rank(w) => Fields(v) \subseteq Fields(w)
  /\ \A v \in Verbosities :
       /\ "type" \in Fields(v) <=> Rank(v) >= Rank("info")
       /\ "operations" \in Fields(v) <=> v = "debug"
  /\ DOMAIN StatusRecord("debug", fs_stats).operations = Kinds
  /\ \A k \in Kinds :
       DOMAIN StatusRecord("debug", fs_stats).operations[k]
         = {"successful", "failed", "bytes"}
  /\ fs_last.kind = "status" =>
       /\ DOMAIN fs_last.reply.val[1] = Fields(fs_last.v)
       /\ fs_last.v = "debug" =>
            \A k \in Kinds : fs_last.reply.val[1].operations[k] = fs_stats[k]

C5_Witness ==
  /\ fs_last.kind = "status"
  /\ fs_last.v = "debug"
  /\ fs_last.reply.val[1].operations.writes.successful = 1
  /\ fs_last.reply.val[1].operations.checks.failed = 1

\* (pivoter)

\* The values of all follow-up queries, as (query, position) pairs.
Requested ==
  UNION { { <<q, i>> : i \in 1..Len(pv_queries[q].in) } :
          q \in 1..Len(pv_queries) }

\* C6: every distinct string value of the pivot field is requested in exactly
\* one follow-up query: a slice yields at most one query, whose `in` list is
\* the slice's pivot values never requested before, each once in the order of
\* first occurrence, and spawns one exporter for it; a slice with no such
\* value yields no query and spawns no exporter.
C6_EachValueRequestedOnce ==
  /\ [](/\ \A a, b \in Requested :
             pv_queries[a[1]].in[a[2]] = pv_queries[b[1]].in[b[2]] => a = b
        /\ pv_requested_ids
             = { pv_queries[a[1]].in[a[2]] : a \in Requested }
        /\ Len(pv_exporters) = Len(pv_queries))
  /\ [][ pv_slices' # pv_slices =>
           IF pv_last'.new = <<>>
             THEN /\ pv_queries' = pv_queries
                  /\ pv_exporters' = pv_exporters
                  /\ pv_running_exporters' = pv_running_exporters
                  /\ pv_last'.query = 0
             ELSE /\ pv_queries'
                       = Append(pv_queries,
                                [type |-> pv_target,
                                 field |-> pv_last'.named.name,
                                 in |-> pv_last'.new])
                  /\ pv_exporters' = Append(pv_exporters, "requested")
                  /\ pv_running_exporters' = pv_running_exporters + 1
                  /\ pv_last'.query = Len(pv_queries') ]_vars

\* uid = [A, B, A] (or another 3-row column repeating one of A, B) of a Zeek
\* slice, pivoted to a Zeek target: one query, uid in [A, B].
C6_Witness ==
  /\ starts_with(pv_target, zeek)
  /\ pv_last.named = Some("uid")
  /\ pv_last.repeats = 1
  /\ pv_last.query = 1
  /\ pv_queries = <<[type |-> pv_target, field |-> "uid", in |-> <<"A", "B">>]>>
  /\ pv_exporters = <<"requested">>

\* C7: the pivot field of a slice is "uid" when the target's and the layout's
\* names both start with "zeek" and "community_id" otherwise; a layout
\* without that field yields no query; the decision is cached per layout and
\* a cached decision never changes.
C7_PivotFieldHeuristic ==
  /\ [](/\ \A layout \in DOMAIN pv_cache :
             pv_cache[layout] = NamedField(pv_target, layout)
        /\ pv_slices > 0 =>
             /\ pv_last.layout \in DOMAIN pv_cache
             /\ pv_last.field = pv_cache[pv_last.layout]
             /\ ~pv_last.field.present => pv_last.query = 0
             /\ pv_last.query # 0 =>
                  pv_queries[pv_last.query].field = pv_last.field.name)
  /\ [][ \A layout \in DOMAIN pv_cache :
           /\ layout \in DOMAIN pv_cache'
           /\ pv_cache'[layout] = pv_cache[layout] ]_vars

\* A Zeek target: a cached "no field" for the Zeek layout without uid, then
\* community_id for the Suricata layout (which has a uid field too).
C7_Witness ==
  /\ starts_with(pv_target, zeek)
  /\ \E layout \in DOMAIN pv_cache :
       starts_with(layout.name, zeek) /\ pv_cache[layout] = None
  /\ ~starts_with(pv_last.layout.name, zeek)
  /\ pv_last.field = Some("community_id")
  /\ pv_last.query = 1

\* (partition)

PartitionPaths == { FilePath(PartitionFiles[i]) : i \in 1..Len(PartitionFiles) }

\* The partition looks at the request at the head of its mailbox.
Looking == pp_mailbox # <<>> /\ pp_mailbox' = Tail(pp_mailbox)

\* C8: while its mmap request is unanswered the passive partition is "waiting
\* for chunk"; an erase looked at in that state is skipped without a reply,
\* and a status request is answered with state "waiting for chunk", also
\* after a skipped erase.  On the test's mock filesystem, which never answers
\* the mmap request, the partition stays in that state and never sends done.
C8_WaitingForChunk ==
  /\ [](/\ (/\ pp_state \notin {"none", "failed"}
            /\ pp_await \in DOMAIN fs_replies
            /\ fs_replies[pp_await] = <<>>)
             => pp_state = "waiting for chunk"
        /\ fs_kind = "mock" =>
             /\ pp_state \in {"none", "waiting for chunk"}
             /\ \A id \in DOMAIN pp_replies :
                  pp_replies[id] \in
                    {<<>>, <<Value([state |-> "waiting for chunk"])>>})
  /\ [][ (pp_state = "waiting for chunk" /\ Looking) =>
           /\ pp_state' = pp_state
           /\ Head(pp_mailbox).kind = "erase" =>
                /\ pp_replies' = pp_replies
                /\ pp_stash' = Append(pp_stash, Head(pp_mailbox))
           /\ Head(pp_mailbox).kind = "status" =>
                pp_replies'[Head(pp_mailbox).id]
                  = <<Value([state |-> "waiting for chunk"])>> ]_vars

\* The test: erase, then status(debug), on the mock filesystem.
C8_Witness ==
  /\ fs_kind = "mock"
  /\ pp_state = "waiting for chunk"
  /\ pp_mailbox = <<>>
  /\ pp_stash = <<[id |-> 1, kind |-> "erase"]>>
  /\ pp_replies = <<<<>>, <<Value([state |-> "waiting for chunk"])>>>>

\* C9: erase() on a loaded passive partition deletes the four partition
\* files and answers done; the partition then stays erased: every lookup,
\* evaluate or erase is answered with an error, status with state "erased",
\* and a filesystem read of a partition file with no_such_file.
C9_ErasedIsTerminal ==
  /\ [](pp_state = "erased" => PartitionPaths \cap DOMAIN fs_disk = {})
  /\ [][ (pp_state = "ready" /\ Looking /\ Head(pp_mailbox).kind = "erase") =>
           /\ PartitionPaths \subseteq DOMAIN fs_disk
           /\ pp_state' = "erased"
           /\ pp_replies'[Head(pp_mailbox).id] = <<Value("done")>> ]_vars
  /\ [][ pp_state = "erased" => pp_state' = "erased" ]_vars
  /\ [][ (pp_state = "erased" /\ Looking) =>
           LET reply == pp_replies'[Head(pp_mailbox).id] IN
           /\ Len(reply) = 1
           /\ IF Head(pp_mailbox).kind = "status"
                THEN reply[1] = Value([state |-> "erased"])
                ELSE ~reply[1].ok ]_vars
  /\ [][ (pp_state = "erased" /\ Handling({"read"})
            /\ Resolved(Head(fs_mailbox).filename) \in PartitionPaths) =>
           fs_replies'[Head(fs_mailbox).id] = <<Error("no_such_file")>> ]_vars

\* After the erase: a second erase was refused, and a read requested after
\* the erase was answered no_such_file.
C9_Witness ==
  /\ pp_state = "erased"
  /\ \E id \in DOMAIN pp_replies :
       pp_replies[id] # <<>> /\ ~pp_replies[id][1].ok
  /\ \E id \in DOMAIN fs_replies :
       /\ id >= pp_erasedAt
       /\ fs_replies[id] = <<Error("no_such_file")>>

\* C10: meta.json is on disk only if the other three files are, completely
\* written; a seal with a failed write (the meta.json write included) reports
\* one error and leaves no meta.json, so that a scan does not list the
\* directory.
C10_MetaWrittenLast ==
  /\ FilePath("meta.json") \in DOMAIN fs_disk =>
       \A i \in 1..Len(PartitionFiles) :
         /\ FilePath(PartitionFiles[i]) \in DOMAIN fs_disk
         /\ fs_disk[FilePath(PartitionFiles[i])] = FileBytes(PartitionFiles[i])
  /\ ap_pc = "failed" =>
       /\ ap_errors = 1
       /\ FilePath("meta.json") \notin DOMAIN fs_disk
       /\ Scan = {}
  /\ ap_pc # "failed" => ap_errors = 0
  /\ (ap_pc = "sealed" /\ pp_state # "erased") => Scan = {uuid}

\* The meta.json write failed after the three other writes succeeded; the
\* orphans are still there.
C10_Witness ==
  /\ ap_pc = "failed"
  /\ fs_stats.writes.successful = 3
  /\ fs_stats.writes.failed = 1
  /\ FilePath("segment.bin") \in DOMAIN fs_disk
  /\ FilePath("meta.json") \notin DOMAIN fs_disk

\* (segment)

\* The id interval of the slice holds an id of ids.
Overlaps(slice, ids) ==
  \E x \in ids : slice.offset <= x /\ x < slice.offset + slice.rows

OverlappingIn(slices, ids) == SelectSeq(slices, LAMBDA x : Overlaps(x, ids))

\* offset[i] + rows[i] <= offset[i+1], offsets strictly increasing.
Increasing(slices) ==
  \A i \in 1..(Len(slices) - 1) :
    /\ slices[i].offset < slices[i + 1].offset
    /\ slices[i].offset + slices[i].rows <= slices[i + 1].offset

C12_SegmentOffsetsIncrease ==
  /\ Increasing(sgm.builder)
  /\ sgm.segment # <<>> => Increasing(sgm.segment[1].slices)
  /\ sgm.last.op = "add" =>
       LET before == sgm.last.before
           below == /\ before # <<>>
                    /\ sgm.last.slice.offset
                         < before[Len(before)].offset + before[Len(before)].rows
       IN /\ sgm.last.ok = ~below
          /\ sgm.builder = IF below THEN before
                           ELSE Append(before, sgm.last.slice)
  /\ sgm.last.op = "ids" =>
       LET slices == sgm.segment[1].slices
           bits == sgm.last.result.bits
       IN /\ ~sgm.last.result.wrapped
          /\ Len(bits) = IF slices = <<>> THEN 0
                         ELSE slices[Len(slices)].offset
                                + slices[Len(slices)].rows
          /\ \A k \in 1..Len(bits) :
               bits[k] = (\E i \in 1..Len(slices) : Overlaps(slices[i], {k - 1}))

\* A slice that starts inside the slice accepted before it was rejected.
C12_Witness ==
  /\ sgm.last.op = "add"
  /\ ~sgm.last.ok
  /\ sgm.builder # <<>>
  /\ sgm.last.slice.offset > sgm.builder[Len(sgm.builder)].offset

\* (syslog reader)

\* The numbers of the event lines (the lines that are not empty) among the
\* first n lines of the input, in input order.
EventLines(n) ==
  SelectSeq([i \in 1..n |-> i], LAMBDA i : rdr.lines[i] # "empty")

\* All event lines of the input have one layout.
OneLayout ==
  \A i, j \in 1..Len(rdr.lines) :
    (rdr.lines[i] # "empty" /\ rdr.lines[j] # "empty")
      => rdr.lines[i] = rdr.lines[j]

Min(a, b) == IF a <= b THEN a ELSE b

\* The rows the consumer received, slice after slice.
Delivered ==
  LET RECURSIVE cat(_)
      cat(xs) == IF xs = <<>> THEN <<>> ELSE Head(xs).rows \o cat(Tail(xs))
  IN cat(rdr.slices)

\* rows_produced = min(L, max_events); the events arrive in input order, in
\* slices of max_slice_size rows, the k-th event at row k mod max_slice_size
\* of slice k div max_slice_size.
SlicedInOrder ==
  LET events == EventLines(Len(rdr.lines))
      n == Min(Len(events), rdr.max_events)
  IN /\ rdr.rows_produced = n
     /\ Len(Delivered) = rdr.rows_produced
     /\ \A i \in 1..Len(rdr.slices) :
          Len(rdr.slices[i].rows) <= rdr.max_slice_size
     /\ \A k \in 0..(n - 1) :
          /\ (k \div rdr.max_slice_size) + 1 <= Len(rdr.slices)
          /\ (k % rdr.max_slice_size) + 1
               <= Len(rdr.slices[(k \div rdr.max_slice_size) + 1].rows)
          /\ rdr.slices[(k \div rdr.max_slice_size) + 1]
               .rows[(k % rdr.max_slice_size) + 1] = events[k + 1]

\* C13 as stated: every read of an input of one layout that ends without a
\* stall reports rows_produced = min(L, max_events) and delivers the events
\* in order, sliced by max_slice_size.
C13_ReadProducesMin ==
  (rdr.result \notin {"running", "stalled"} /\ OneLayout) => SlicedInOrder

\* C13, amended: the same for a read that ends with no error or with
\* end_of_input (a read cut short by the batch timeout delivers less).
C13_ReadProducesMinUnlessCutShort ==
  (rdr.result \in {"none", "end_of_input"} /\ OneLayout) => SlicedInOrder

\* Three events, max_events = 2, max_slice_size = 1: two slices, two rows.
C13_Witness ==
  /\ rdr.result = "none"
  /\ OneLayout
  /\ Len(EventLines(Len(rdr.lines))) = 3
  /\ rdr.rows_produced = 2
  /\ Len(rdr.slices) = 2

\* The rows built from line n: in the builders and in the delivered slices.
RowsOf(n, layout) ==
  Cardinality({ i \in 1..Len(rdr.builders[layout]) :
                  rdr.builders[layout][i] = n })
  + Cardinality({ <<i, j>> \in (1..Len(rdr.slices)) \X (1..Len(rdr.lines)) :
                    /\ rdr.slices[i].layout = layout
                    /\ j <= Len(rdr.slices[i].rows)
                    /\ rdr.slices[i].rows[j] = n })

Fits(src, bits, signed) ==
  LET zeros(k) == \A i \in 1..k : src[i] = 0
      ones(k) == \A i \in 1..k : src[i] = Limb - 1
  IN IF bits = 8
       THEN IF signed
              THEN \/ zeros(3) /\ src[4] < 128
                   \/ ones(3) /\ src[4] >= Limb - 128
              ELSE zeros(3) /\ src[4] < 256
     ELSE IF bits = 16
       THEN IF signed
              THEN \/ zeros(3) /\ src[4] < Limb \div 2
                   \/ ones(3) /\ src[4] >= Limb \div 2
              ELSE zeros(3)
     ELSE IF signed
            THEN \/ zeros(2) /\ src[3] < Limb \div 2
                 \/ ones(2) /\ src[3] >= Limb \div 2
            ELSE zeros(2)

\* C15: an integer converted to a narrower signed target, or a count to a
\* narrower unsigned target, succeeds exactly when the value lies in the
\* range of the target, and then the target holds the same value; otherwise
\* the call returns convert_error and the target keeps its previous value.
C15_NarrowingIsChecked ==
  (/\ cnv.last.op = "narrow"
   /\ cnv.last.bits < 64
   /\ cnv.last.signed = (cnv.last.from = "integer")) =>
    IF Fits(cnv.last.src, cnv.last.bits, cnv.last.signed)
      THEN cnv.last.err = "none" /\ cnv.last.after = cnv.last.src
      ELSE cnv.last.err = "convert_error"
             /\ cnv.last.after = cnv.last.before

\* 2^32 into uint32_t: convert_error, the member still holds 7.
C15_Witness ==
  /\ cnv.last.op = "narrow"
  /\ cnv.last.from = "count"
  /\ cnv.last.bits = 32
  /\ cnv.last.src = <<0, 1, 0, 0>>
  /\ cnv.last.err = "convert_error"
  /\ cnv.last.after = FromInt(7)

\* The field of member i is in the source record.
Present(i) == cnv.last.layout[i].name \in DOMAIN cnv.last.src

FieldOf(i) == cnv.last.src[cnv.last.layout[i].name]

\* The value of the field cannot be stored in a member of the kind.
Incompatible(d, kind) ==
  IF kind = "vector"
    THEN d.t # "nil"
           /\ ~(d.t = "list" /\ \A j \in 1..Len(d.xs) : d.xs[j].t = "count")
    ELSE d.t \notin {"nil", "integer"}

\* C16: convert(record, struct) decides each member by its own field: an
\* absent field leaves the member as it was and raises no error; a field
\* with an incompatible value makes the call return convert_error and leaves
\* the member as it was; a nil field resets the member to its default and
\* raises no error.
C16_MembersDecidedIndependently ==
  (/\ cnv.last.op = "record"
   /\ \A i \in DOMAIN cnv.last.kinds :
        cnv.last.layout[i].type = Declared(cnv.last.kinds[i])) =>
    /\ \A i \in DOMAIN cnv.last.kinds :
         IF ~Present(i) THEN cnv.last.after[i] = cnv.last.before[i]
         ELSE IF FieldOf(i).t = "nil"
           THEN cnv.last.after[i] = Default(cnv.last.kinds[i])
         ELSE Incompatible(FieldOf(i), cnv.last.kinds[i]) =>
                /\ cnv.last.err = "convert_error"
                /\ cnv.last.after[i] = cnv.last.before[i]
    /\ cnv.last.err = "convert_error" =>
         \E i \in DOMAIN cnv.last.kinds :
           Present(i) /\ Incompatible(FieldOf(i), cnv.last.kinds[i])

\* C18: a field that is in the source record and whose layout type is an
\* alias or the none type makes convert(record, struct) return an error,
\* whatever its value, and its member is not modified.
C18_AliasIsATypeError ==
  cnv.last.op = "record" =>
    \A i \in DOMAIN cnv.last.kinds :
      (Present(i) /\ cnv.last.layout[i].type \in {"alias", "none"}) =>
        /\ cnv.last.err = "convert_error"
        /\ cnv.last.after[i] = cnv.last.before[i]

\* An integer field that the member could hold, declared as an alias: the
\* call fails and the member keeps 1337.
C18_Witness ==
  /\ cnv.last.op = "record"
  /\ cnv.last.kinds = <<"integer">>
  /\ cnv.last.layout[1].type = "alias"
  /\ Present(1)
  /\ FieldOf(1).t = "integer"
  /\ cnv.last.err = "convert_error"
  /\ cnv.last.after = <<<<1337>>>>

\* Element i of the converted list is a record that has the key field.
Keyed(i) == cnv.last.src[i].rec /\ cnv.last.src[i].key # 0

KeyOf(i) == Strings[cnv.last.src[i].key]

\* The key of element i was in the map before the call or is the key of an
\* earlier element.
Redefines(i) ==
  \/ KeyOf(i) \in DOMAIN cnv.last.before
  \/ \E j \in 1..(i - 1) : Keyed(j) /\ KeyOf(j) = KeyOf(i)

\* The elements of the list that have the key k.
WithKey(k) == { i \in DOMAIN cnv.last.src : Keyed(i) /\ KeyOf(i) = k }

\* The entry of key k after a conversion without error: for X the value of
\* the element, for iList the old entry with the elements' values appended.
ExpectedEntry(k) ==
  IF cnv.mapped = "X" THEN <<<<1>>>>
  ELSE << (IF k \in DOMAIN cnv.last.before
             THEN cnv.last.before[k][1] ELSE <<>>)
            \o [j \in 1..Cardinality(WithKey(k)) |-> 1] >>

\* C17: converting a list of records into a map needs exactly one leaf with
\* the "key" attribute, else it is convert_error; the key field's value is
\* the key and the rest of the record the mapped value; a key that is already
\* in the map, from an earlier call or an earlier element, is convert_error
\* when the mapped type has no mappend, and otherwise the entry becomes
\* mappend(old, new), without error and without a new entry.
C17_ListToMapByKey ==
  cnv.last.op = "map" =>
    /\ Cardinality(key_fields(cnv.last.layout)) # 1 =>
         /\ cnv.last.err = "convert_error"
         /\ DOMAIN cnv.last.after = DOMAIN cnv.last.before
         /\ \A k \in DOMAIN cnv.last.after :
              cnv.last.after[k] = cnv.last.before[k]
    /\ (/\ Cardinality(key_fields(cnv.last.layout)) = 1
        /\ \A i \in DOMAIN cnv.last.src : cnv.last.src[i].rec) =>
         /\ ~semigroup(cnv.mapped) =>
              (cnv.last.err = "convert_error" <=>
                 \E i \in DOMAIN cnv.last.src : Keyed(i) /\ Redefines(i))
         /\ semigroup(cnv.mapped) => cnv.last.err = "none"
         /\ cnv.last.err = "none" =>
              /\ DOMAIN cnv.last.after =
                   DOMAIN cnv.last.before
                     \cup { KeyOf(i) : i \in { j \in DOMAIN cnv.last.src :
                                                 Keyed(j) } }
              /\ \A k \in DOMAIN cnv.last.after :
                   cnv.last.after[k] = ExpectedEntry(k)

\* A second list with the key "x" is converted into a map of iList that has
\* "x": the entry grows, the map does not.
C17_Witness ==
  /\ cnv.last.op = "map"
  /\ cnv.mapped = "iList"
  /\ cnv.last.err = "none"
  /\ "x" \in DOMAIN cnv.last.before
  /\ WithKey("x") # {}
  /\ Len(cnv.last.after["x"][1]) > Len(cnv.last.before["x"][1])
  /\ DOMAIN cnv.last.after = DOMAIN cnv.last.before

\* C19: the builder takes cells in row-major order: after the R*C values of
\* the test data were added, finish() returns a slice with R rows, C columns
\* and at(r, c) the (r*C + c)-th value added; finish() resets the builder, so
\* the slice of a second make_slice equals the first and holds no row twice.
C19_BuilderIsRowMajorAndResets ==
  \A i \in DOMAIN tbl.slices :
    /\ tbl.slices[i].rows = Len(tbl.test_data)
    /\ tbl.slices[i].columns = Len(tbl.layout)
    /\ \A r \in 0..(Len(tbl.test_data) - 1), c \in 0..(Len(tbl.layout) - 1) :
         slice_at(tbl.slices[i], r, c) = tbl.test_data[r + 1][c + 1]
    /\ tbl.slices[i] = tbl.slices[1]

\* A second slice of two different rows in two columns.
C19_Witness ==
  /\ Len(tbl.slices) = 2
  /\ Len(tbl.layout) = 2
  /\ Len(tbl.test_data) = 2
  /\ tbl.test_data[1] # tbl.test_data[2]
  /\ tbl.test_data[1][1] # tbl.test_data[1][2]
  /\ tbl.slices[2].rows = 2

\* The cell satisfies `cell op v`; a nil cell satisfies == nil only.
Satisfies(cell, op, v) ==
  IF cell.tag = "nil" THEN op = "equal" /\ v.tag = "nil"
  ELSE IF v.tag = "nil" THEN op = "not_equal"
  ELSE compare(cell.n, op, v.n)

LookupValues == CellValues \cup {CellInt(3)}

C25_PivoterTerminates == <>pv_quit

\* The spawn requests in the state s.
Exporters(s) == { i \in DOMAIN pv_exporters : pv_exporters[i] = s }

\* C26: running_exporters is the number of spawn requests awaiting their
\* reply plus the number of exporters spawned and not yet down, and is not
\* negative; the pivoter has quit only with the final status received and
\* running_exporters at 0.
C26_RunningExportersIsExact ==
  /\ pv_running_exporters =
       Cardinality(Exporters("requested")) + Cardinality(Exporters("running"))
  /\ pv_running_exporters >= 0
  /\ pv_quit => (pv_initial_query_completed /\ pv_running_exporters = 0)

\* The pivoter quit on the DOWN of its last exporter, after an earlier spawn
\* request had failed.
C26_Witness ==
  /\ pv_quit
  /\ Exporters("down") # {}
  /\ Exporters("failed") # {}

\* The counters of posix_filesystem_state::stats.
Counters ==
  { <<op, f>> : op \in {"checks", "writes", "reads", "mmaps"},
                f \in {"successful", "failed", "bytes"} }

\* C27: the counters account for every request once: writes.successful +
\* writes.failed is the number of writes handled, checks.successful +
\* checks.failed the number of reads and mmaps handled, and the successful
\* and failed reads and mmaps add up to checks.successful; no counter ever
\* decreases and a status request changes none.
C27_CountersAccountForRequests ==
  /\ [](/\ fs_stats.writes.successful + fs_stats.writes.failed
             = fs_handled.write
        /\ fs_stats.checks.successful + fs_stats.checks.failed
             = fs_handled.read + fs_handled.mmap
        /\ fs_stats.reads.successful + fs_stats.reads.failed
             + fs_stats.mmaps.successful + fs_stats.mmaps.failed
             = fs_stats.checks.successful)
  /\ [][ /\ \A c \in Counters : fs_stats'[c[1]][c[2]] >= fs_stats[c[1]][c[2]]
         /\ Handling({"status"}) => fs_stats' = fs_stats ]_vars

\* A failed write, a read of a missing file and a status request were
\* handled.
C27_Witness ==
  /\ fs_stats.writes.failed = 1
  /\ fs_stats.checks.failed = 1
  /\ fs_handled.status = 1
  /\ fs_mailbox = <<>>

\* C28: the requests are handled in the order they were sent, and a read
\* that succeeds returns exactly the bytes of the last write to the path
\* that succeeded: the bytes a sender wrote before its read, unless another
\* write to the path was handled in between, and with two writers the bytes
\* of one whole write.
C28_ReadYourWrites ==
  /\ [](\A i, j \in 1..Len(fs_mailbox) :
          i < j => fs_mailbox[i].id < fs_mailbox[j].id)
  /\ [][ Handling({"read"}) =>
           LET req == Head(fs_mailbox)
               reply == fs_replies'[req.id][1]
           IN reply.ok =>
                /\ Resolved(req.filename) \in DOMAIN fs_wrote
                /\ reply = Value(fs_wrote[Resolved(req.filename)]) ]_vars

\* Both chunks were written, and a read returned the two bytes written last.
C28_Witness ==
  /\ fs_stats.writes.successful = 2
  /\ fs_moved.writes = 3
  /\ fs_last.kind = "read"
  /\ fs_last.reply = Value(<<2, 3>>)

\* How often the row of line n is in the slices delivered, and in the
\* builders.
InSlices(n) ==
  Cardinality({ ij \in (DOMAIN rdr.slices) \X (1..Len(rdr.lines)) :
                  /\ ij[2] <= Len(rdr.slices[ij[1]].rows)
                  /\ rdr.slices[ij[1]].rows[ij[2]] = n })

InBuilders(n) ==
  Cardinality({ lj \in (DOMAIN rdr.builders) \X (1..Len(rdr.lines)) :
                  /\ lj[2] <= Len(rdr.builders[lj[1]])
                  /\ rdr.builders[lj[1]][lj[2]] = n })

\* The lines read so far that are rows.
RowsAdded == { n \in 1..rdr.pos : rdr.lines[n] # "empty" }

\* C29: when read returns end_of_input or timeout every row added so far
\* has been delivered; a stall delivers no slice and leaves the rows in
\* their builders; over the reads of a reader every row added is in the
\* slices delivered or in a builder exactly once.
C29_FlushButNotOnStall ==
  /\ [](/\ \A n \in RowsAdded : InSlices(n) + InBuilders(n) = 1
        /\ rdr.result \in {"end_of_input", "timeout"} =>
             \A n \in RowsAdded : InSlices(n) = 1)
  /\ [][ rdr'.result = "stalled" =>
           /\ rdr'.slices = rdr.slices
           /\ rdr'.builders = rdr.builders ]_vars

\* The read stalled with rows of both layouts in their builders and nothing
\* delivered.
C29_Witness ==
  /\ rdr.result = "stalled"
  /\ rdr.slices = <<>>
  /\ \A l \in DOMAIN rdr.builders : rdr.builders[l] # <<>>

\* The number of rows of the slices and the number of set bits of a bitmap.
RECURSIVE SumRows(_)
SumRows(slices) ==
  IF slices = <<>> THEN 0 ELSE Head(slices).rows + SumRows(Tail(slices))

SetBits(bits) == Cardinality({ k \in 1..Len(bits) : bits[k] })

RECURSIVE IsMerge(_, _, _, _)
IsMerge(src, dst, res, merge_lists) ==
  /\ DOMAIN res = DOMAIN src \cup DOMAIN dst
  /\ \A key \in DOMAIN res :
       IF key \notin DOMAIN src THEN res[key] = dst[key]
       ELSE IF src[key].t = "dictionary"
         THEN /\ res[key].t = "dictionary"
              /\ IsMerge(src[key].d,
                         IF key \in DOMAIN dst /\ dst[key].t = "dictionary"
                           THEN dst[key].d ELSE NoEntries,
                         res[key].d, merge_lists)
       ELSE IF /\ src[key].t = "list"
               /\ key \in DOMAIN dst
               /\ dst[key].t = "list"
         THEN res[key] = IF merge_lists = "no" THEN src[key]
                         ELSE CfgList(dst[key].xs \o src[key].xs)
       ELSE res[key] = src[key]

\* The records of TEST(merge) and what it expects.
TestXs ==
  [a |-> CfgString("foo"),
   b |-> CfgDict([c |-> CfgInteger(-42), d |-> CfgList(<<1, 2, 3>>)]),
   c |-> CfgDict([a |-> CfgString("bar")])]
TestYs ==
  [a |-> CfgString("bar"),
   b |-> CfgDict([a |-> CfgInteger(42), d |-> CfgList(<<4, 5, 6>>)]),
   c |-> CfgString("not a record yet")]
TestExpected(d) ==
  [a |-> CfgString("foo"),
   b |-> CfgDict([a |-> CfgInteger(42), d |-> CfgList(d),
                  c |-> CfgInteger(-42)]),
   c |-> CfgDict([a |-> CfgString("bar")])]

C22_MappedEqualsDottedQuad ==
  (adr.op = "address" /\ adr.form \in {"quad", "mapped"}) =>
    /\ adr.result.ok
    /\ adr.result.next = Len(adr.text) + 1
    /\ adr.result.bytes
         = [n \in 1..10 |-> 0] \o <<255, 255>> \o adr.octets
    /\ adr.result.bytes = parse_address(QuadText(adr.octets)).bytes
    /\ adr.result.bytes = parse_address(MappedText(adr.octets)).bytes

\* The address parsed from ::ffff:255.0.0.0.
C22_Witness ==
  /\ adr.op = "address"
  /\ adr.form = "mapped"
  /\ adr.octets = <<255, 0, 0, 0>>
  /\ adr.result.ok
  /\ adr.result.bytes[13] = 255

\* The numerals of the grammar's dec-octet: 0..255 without leading zeros.
DecOctets == { to_decimal(n) : n \in 0..255 }

\* The text is four dec-octets with single dots between them.
IsDottedQuad(text) ==
  LET dots == { i \in 1..Len(text) : text[i] = "." }
      Dot(k) == CHOOSE i \in dots :
                  Cardinality({ j \in dots : j < i }) = k - 1
  IN /\ Cardinality(dots) = 3
     /\ SubSeq(text, 1, Dot(1) - 1) \in DecOctets
     /\ SubSeq(text, Dot(1) + 1, Dot(2) - 1) \in DecOctets
     /\ SubSeq(text, Dot(2) + 1, Dot(3) - 1) \in DecOctets
     /\ SubSeq(text, Dot(3) + 1, Len(text)) \in DecOctets

\* C23: the IPv4 parser accepts a text exactly when it is four dec-octets
\* of the documented grammar (0..255, no leading zeros) separated by
\* single dots.
C23_V4AcceptsDecOctetsOnly ==
  adr.op = "v4" =>
    ((adr.result.ok /\ adr.result.next = Len(adr.text) + 1)
       <=> IsDottedQuad(adr.text))

\* The values added so far.
Added == { syn.added[n] : n \in 1..Len(syn.added) }

\* C24: after any sequence of add(b), any_true (any_false) holds exactly
\* when true (false) was added at least once; a flag that is set is not
\* cleared by a later add; lookup(==, v) is not Some(false) for a value v
\* that was added.
C24_BoolSynopsisSoundMonotone ==
  /\ [](/\ any_true(syn) = (TRUE \in Added)
        /\ any_false(syn) = (FALSE \in Added)
        /\ \A v \in Added :
             synopsis_lookup(syn, "equal", BoolView(v)) # Known(FALSE))
  /\ [][/\ any_true(syn) => any_true(syn')
        /\ any_false(syn) => any_false(syn')
        /\ (/\ syn'.last # syn.last
            /\ syn'.last.op = "equal"
            /\ syn'.last.rhs.t = "bool"
            /\ syn'.last.rhs.b \in Added)
             => syn'.last.result = Known(TRUE)]_vars

\* false is added after true, and a lookup of == true has answered.
C24_Witness ==
  /\ Len(syn.added) >= 2
  /\ syn.added[1] = TRUE
  /\ syn.added[Len(syn.added)] = FALSE
  /\ syn.last.op = "equal"
  /\ syn.last.rhs = BoolView(TRUE)
  /\ syn.last.result = Known(TRUE)

====
